---- MODULE Spec2Model ----
(***************************************************************************)
(* A model of the risk and compliance scoring engines of the CBDC          *)
(* infrastructure library:                                                  *)
(*   cbdcdai/risk/risk_analytics.py         (RiskAnalytics)                 *)
(*   cbdcdai/risk/advanced_risk_models.py   (AdvancedRiskModels)            *)
(*   cbdcdai/compliance/advanced_compliance.py (AdvancedCompliance)         *)
(*                                                                         *)
(* The engines compute with Python/numpy binary floating point.  The model *)
(* keeps that arithmetic: a number is a binary float with a significand of *)
(* Prec bits, rounded to nearest (ties to even) after every operation,     *)
(* overflowing to an infinity above 2^(Emax+1), with NaN for inf-inf and   *)
(* 0/0.  binary64 is the instance Prec = 53, Emax = 1023; the model runs   *)
(* the same rules on a narrower format.  Underflow is not modelled (the    *)
(* exponent is unbounded below).                                           *)
(***************************************************************************)
EXTENDS Integers, Sequences, FiniteSets, TLC

\* ------------------------------------------------------------------ *\
\* Bounds of the model                                                   *
\* ------------------------------------------------------------------ *\

\* Bits of significand of the model's floating point format.
Prec == 4

\* Largest binary exponent of a finite value: |x| < 2^(Emax+1).
Emax == 24

\* ------------------------------------------------------------------ *\
\* Floating point                                                        *
\* ------------------------------------------------------------------ *\

Abs(x) == IF x < 0 THEN -x ELSE x

Sgn(x) == IF x < 0 THEN -1 ELSE IF x > 0 THEN 1 ELSE 0

RECURSIVE Pow2(_)
Pow2(n) == IF n <= 0 THEN 1 ELSE 2 * Pow2(n - 1)

\* Number of bits of a natural number (0 for 0).
RECURSIVE BitLen(_)
BitLen(a) == IF a = 0 THEN 0 ELSE 1 + BitLen(a \div 2)

\* A finite float m * 2^e, and the three special values.
Fin(m, e) == [k |-> "fin", m |-> m, e |-> e]
NaN == [k |-> "nan", m |-> 0, e |-> 0]
PInf == [k |-> "pinf", m |-> 0, e |-> 0]
NInf == [k |-> "ninf", m |-> 0, e |-> 0]
Zero == Fin(0, 0)

IsFin(x) == x.k = "fin"
IsNaN(x) == x.k = "nan"
IsInf(x) == x.k \in {"pinf", "ninf"}

\* The canonical form of m * 2^e (odd significand, or zero); a magnitude
\* past the exponent range is an infinity.
RECURSIVE Canon(_, _)
Canon(m, e) ==
    IF m = 0 THEN Zero
    ELSE IF m % 2 = 0 THEN Canon(m \div 2, e + 1)
    ELSE IF BitLen(Abs(m)) + e - 1 > Emax
         THEN (IF m > 0 THEN PInf ELSE NInf)
         ELSE Fin(m, e)

\* a/d scaled by a power of two so that the quotient has Prec+2 bits:
\* <<a', d', k>> with a'/d' = (a/d) * 2^k.
RECURSIVE NormQ(_, _, _)
NormQ(a, d, k) ==
    IF a \div d >= Pow2(Prec + 2) THEN NormQ(a, 2 * d, k - 1)
    ELSE IF a \div d < Pow2(Prec + 1) THEN NormQ(2 * a, d, k + 1)
    ELSE <<a, d, k>>

\* The quotient t[1]/t[2] of Prec+2 bits rounded to Prec bits, ties to
\* even, with sign sgn and exponent e - t[3].
RoundNorm(t, sgn, e) ==
    LET q == t[1] \div t[2]
        sticky == (t[1] % t[2]) # 0
        hi == q \div 4
        low == q % 4
        up == low = 3 \/ (low = 2 /\ (sticky \/ hi % 2 = 1))
        mag == IF up THEN hi + 1 ELSE hi
    IN  Canon(sgn * mag, e - t[3] + 2)

\* The float nearest to (n/d) * 2^e, ties to even (d > 0).
RoundRat(n, d, e) ==
    IF n = 0 THEN Zero
    ELSE CHOOSE r \in {RoundNorm(t, Sgn(n), e) : t \in {NormQ(Abs(n), d, 0)}} : TRUE

\* int -> float conversion.
FromInt(i) == RoundRat(i, 1, 0)

\* A decimal literal n/d of the source text.
FLit(n, d) == RoundRat(n, d, 0)

One == FromInt(1)

FNeg(x) ==
    CASE x.k = "fin" -> Fin(-x.m, x.e)
      [] x.k = "pinf" -> NInf
      [] x.k = "ninf" -> PInf
      [] OTHER -> NaN

\* Sign of a float: -1, 0, 1 (NaN has none: 0).
FSign(x) ==
    CASE x.k = "fin" -> Sgn(x.m)
      [] x.k = "pinf" -> 1
      [] x.k = "ninf" -> -1
      [] OTHER -> 0

\* x with its significand widened to Prec bits: <<M, E>>, x = M * 2^E.
Fat(x) ==
    LET s == Prec - BitLen(Abs(x.m))
    IN  <<x.m * Pow2(s), x.e - s>>

\* Sum of two widened finite non-zero floats fx, fy.
AddFat(fx, fy) ==
    LET big == IF fx[2] >= fy[2] THEN fx ELSE fy
        small == IF fx[2] >= fy[2] THEN fy ELSE fx
        gap == big[2] - small[2]
    IN  IF gap > Prec + 4
        THEN RoundRat(big[1] * 16 + Sgn(small[1]), 1, big[2] - 4)
        ELSE RoundRat(big[1] * Pow2(gap) + small[1], 1, small[2])

\* Sum of two finite non-zero floats.
AddFin(x, y) ==
    CHOOSE r \in {AddFat(fx, fy) : fx \in {Fat(x)}, fy \in {Fat(y)}} : TRUE

\* x + y
FAdd(x, y) ==
    CASE IsNaN(x) \/ IsNaN(y) -> NaN
      [] IsInf(x) /\ IsInf(y) -> IF x = y THEN x ELSE NaN
      [] IsInf(x) -> x
      [] IsInf(y) -> y
      [] x.m = 0 -> y
      [] y.m = 0 -> x
      [] OTHER -> AddFin(x, y)

\* x - y
FSub(x, y) == FAdd(x, FNeg(y))

\* x * y
FMul(x, y) ==
    CASE IsNaN(x) \/ IsNaN(y) -> NaN
      [] IsInf(x) \/ IsInf(y) ->
            IF FSign(x) * FSign(y) = 0 THEN NaN
            ELSE IF FSign(x) * FSign(y) > 0 THEN PInf ELSE NInf
      [] OTHER -> RoundRat(x.m * y.m, 1, x.e + y.e)

\* x / y for y # 0.
DivNZ(x, y) ==
    CASE IsNaN(x) \/ IsNaN(y) -> NaN
      [] IsInf(x) /\ IsInf(y) -> NaN
      [] IsInf(x) -> IF FSign(x) * FSign(y) > 0 THEN PInf ELSE NInf
      [] IsInf(y) -> Zero
      [] OTHER -> RoundRat(Sgn(y.m) * x.m, Abs(y.m), x.e - y.e)

\* Comparisons; every comparison with NaN is false.
FLt(x, y) == ~IsNaN(x) /\ ~IsNaN(y) /\ x # y /\ FSign(FSub(x, y)) < 0
FLe(x, y) == ~IsNaN(x) /\ ~IsNaN(y) /\ (x = y \/ FSign(FSub(x, y)) < 0)
FGt(x, y) == FLt(y, x)
FGe(x, y) == FLe(y, x)

\* ------------------------------------------------------------------ *\
\* Python and numpy operators                                            *
\* ------------------------------------------------------------------ *\

\* The outcome of a call: a returned value, or a raised exception.
Ok(v) == [ok |-> TRUE, err |-> "", v |-> v]
Raise(e) == [ok |-> FALSE, err |-> e, v |-> Zero]

\* Python's x / y on floats: a zero divisor raises ZeroDivisionError.
PyDiv(x, y) == IF y = Zero THEN Raise("ZeroDivisionError") ELSE Ok(DivNZ(x, y))

\* numpy's x / y on scalars: a zero divisor gives nan or an infinity
\* (with a RuntimeWarning), never an exception.
NpDiv(x, y) ==
    IF y = Zero
    THEN (IF IsNaN(x) \/ FSign(x) = 0 THEN NaN
          ELSE IF FSign(x) > 0 THEN PInf ELSE NInf)
    ELSE DivNZ(x, y)

\* Python's max(a, b) and min(a, b): the first argument is kept unless the
\* second compares strictly greater (smaller); a NaN first argument stays.
PyMax(a, b) == IF FGt(b, a) THEN b ELSE a
PyMin(a, b) == IF FLt(b, a) THEN b ELSE a

\* min(max(risk_score, 0), 1)
Clamp(x) == PyMin(PyMax(x, Zero), One)

\* e^(-network_size/1000) to four digits, for the network sizes the model
\* draws: <<network_size, numerator, denominator>>.
ExpTable ==
    { <<0, 1, 1>>, <<100, 9048, 10000>>, <<1000, 3679, 10000>>,
      <<5000, 67, 10000>>, <<-1000, 27183, 10000>>,
      <<-20000, 485165195, 1>> }

\* np.exp(x) for x = -network_size/1000: the tabulated value, rounded; an
\* overflow is an infinity.
NpExp(x) ==
    LET hit == {p \in ExpTable : RoundRat(-p[1], 1000, 0) = x}
        p == CHOOSE q \in hit : TRUE
    IN  RoundRat(p[2], p[3], 0)

\* ------------------------------------------------------------------ *\
\* RiskAnalytics (risk_analytics.py)                                     *
\* ------------------------------------------------------------------ *\

\* RiskAnalytics.assess_liquidity_risk(trading_volume, market_cap,
\* bid_ask_spread)
assess_liquidity_risk(trading_volume, market_cap, bid_ask_spread) ==
    LET turnover == PyDiv(trading_volume, market_cap)
        impact == PyDiv(bid_ask_spread, FAdd(One, bid_ask_spread))
        risk_score == FAdd(FMul(FLit(7, 10), FSub(One, turnover.v)),
                           FMul(FLit(3, 10), impact.v))
    IN  IF ~turnover.ok THEN turnover
        ELSE IF ~impact.ok THEN impact
        ELSE Ok(Clamp(risk_score))

\* RiskAnalytics.assess_operational_risk(system_uptime, transaction_volume,
\* error_rate)
RA_assess_operational_risk(system_uptime, transaction_volume, error_rate) ==
    LET availability_risk == FSub(One, system_uptime)
        volume_risk == PyMin(DivNZ(transaction_volume, FromInt(1000000)), One)
        error_risk == error_rate
        risk_score == FAdd(FAdd(FMul(FLit(4, 10), availability_risk),
                                FMul(FLit(3, 10), volume_risk)),
                           FMul(FLit(3, 10), error_risk))
    IN  Ok(Clamp(risk_score))

\* RiskAnalytics.assess_systemic_risk(network_size, concentration_ratio,
\* interdependency_score); network_size is an int.
RA_assess_systemic_risk(network_size, concentration_ratio, interdependency_score) ==
    LET size_risk == FSub(One, NpDiv(One,
                          FAdd(One, NpExp(RoundRat(-network_size, 1000, 0)))))
        risk_score == FAdd(FAdd(FMul(FLit(3, 10), size_risk),
                                FMul(FLit(4, 10), concentration_ratio)),
                           FMul(FLit(3, 10), interdependency_score))
    IN  Ok(Clamp(risk_score))

\* ------------------------------------------------------------------ *\
\* AdvancedRiskModels (advanced_risk_models.py)                          *
\* ------------------------------------------------------------------ *\

RECURSIVE SeqSum(_)
SeqSum(s) == IF s = <<>> THEN 0 ELSE Head(s) + SeqSum(Tail(s))

\* the first element in place of the greatest
SeqMax_First(s) == Head(s)

RECURSIVE SeqMax(_)
SeqMax(s) ==
    IF Len(s) = 1 THEN Head(s)
    ELSE LET r == SeqMax(Tail(s)) IN IF Head(s) >= r THEN Head(s) ELSE r

\* adjacency_matrix ** 3 in place of matrix_power: the entrywise product.
MatMul_Entrywise(A, B) ==
    [i \in 1..Len(A) |-> [j \in 1..Len(A) |-> A[i][j] * B[i][j]]]

\* The product of two n x n integer matrices (sequences of rows).
MatMul(A, B) ==
    LET n == Len(A)
    IN  [i \in 1..n |-> [j \in 1..n |->
            SeqSum([k \in 1..n |-> A[i][k] * B[k][j]])]]

\* np.sum in place of np.trace: every entry is added up.
Trace_Sum(A) == SeqSum([i \in 1..Len(A) |-> SeqSum(A[i])])

\* np.trace
Trace(A) == SeqSum([i \in 1..Len(A) |-> A[i][i]])

\* the length of each row in place of its sum
Degrees_RowLength(A) == [i \in 1..Len(A) |-> Len(A[i])]

\* degrees = np.sum(adjacency_matrix, axis=1): the row sums
Degrees(A) == [i \in 1..Len(A) |-> SeqSum(A[i])]

\* AdvancedRiskModels.calculate_network_risk(adjacency_matrix), for an
\* integer matrix given as its sequence of rows.
calculate_network_risk(adjacency_matrix) ==
    LET A == adjacency_matrix
        node_count == Len(A)
        total == SeqSum([i \in 1..node_count |-> SeqSum(A[i])])
        edge_count == DivNZ(FromInt(total), FromInt(2))
        degrees == Degrees(A)
        average_degree == NpDiv(FromInt(SeqSum(degrees)), FromInt(node_count))
        square == \A i \in 1..node_count : Len(A[i]) = node_count
        triangles == DivNZ(FromInt(Trace(MatMul(MatMul(A, A), A))), FromInt(6))
        possible_triangles ==
            DivNZ(FromInt(SeqSum([i \in 1..node_count |->
                                    degrees[i] * (degrees[i] - 1)])),
                  FromInt(2))
        clustering_coefficient ==
            IF FGt(possible_triangles, Zero)
            THEN NpDiv(triangles, possible_triangles)
            ELSE Zero
        max_degree == SeqMax(degrees)
        centralization ==
            NpDiv(FromInt(SeqSum([i \in 1..node_count |-> max_degree - degrees[i]])),
                  FromInt(node_count * (node_count - 1)))
    IN  IF ~square THEN Raise("LinAlgError")
        ELSE IF node_count = 0 THEN Raise("ValueError")
        ELSE Ok([node_count |-> node_count,
                 edge_count |-> edge_count,
                 average_degree |-> average_degree,
                 clustering_coefficient |-> clustering_coefficient,
                 centralization |-> centralization])

\* d[key] on a Python dict (a function from its keys): the first of `keys`
\* that is missing raises KeyError.
HasKeys(d, keys) == keys \subseteq DOMAIN d

\* AdvancedRiskModels.calculate_liquidity_risk(trading_data)
calculate_liquidity_risk(trading_data) ==
    LET td == trading_data
        turnover_ratio == PyDiv(td["volume"], td["market_cap"])
        liquidity_ratio ==
            PyDiv(FMul(td["volume"], FSub(One, td["spread"])), td["market_cap"])
    IN  IF ~HasKeys(td, {"volume", "market_cap"}) THEN Raise("KeyError")
        ELSE IF ~turnover_ratio.ok THEN turnover_ratio
        ELSE IF ~HasKeys(td, {"spread"}) THEN Raise("KeyError")
        ELSE IF ~HasKeys(td, {"depth"}) THEN Raise("KeyError")
        ELSE Ok([trading_volume |-> td["volume"],
                 bid_ask_spread |-> td["spread"],
                 market_depth |-> td["depth"],
                 turnover_ratio |-> turnover_ratio.v,
                 liquidity_ratio |-> liquidity_ratio.v])

\* AdvancedRiskModels.assess_operational_risk(system_metrics)
ARM_assess_operational_risk(system_metrics) ==
    LET sm == system_metrics
        availability_risk == FSub(One, sm["uptime"])
        ratio == PyDiv(sm["response_time"], sm["target_response_time"])
        performance_risk == FSub(One, ratio.v)
        security_risk == PyDiv(sm["security_incidents"], sm["total_incidents"])
        risk_score == FAdd(FAdd(FMul(FLit(4, 10), availability_risk),
                                FMul(FLit(3, 10), performance_risk)),
                           FMul(FLit(3, 10), security_risk.v))
    IN  IF ~HasKeys(sm, {"uptime", "response_time", "target_response_time"})
        THEN Raise("KeyError")
        ELSE IF ~ratio.ok THEN ratio
        ELSE IF ~HasKeys(sm, {"security_incidents", "total_incidents"})
        THEN Raise("KeyError")
        ELSE IF ~security_risk.ok THEN security_risk
        ELSE Ok(Clamp(risk_score))

\* assess_systemic_risk with the weights of the network and the liquidity
\* component exchanged.
ARM_assess_systemic_risk_Swapped(network_metrics, liquidity_metrics, operational_risk) ==
    LET nm == network_metrics
        lm == liquidity_metrics
        density == PyDiv(nm.average_degree, FromInt(nm.node_count))
        network_risk ==
            FAdd(FAdd(FMul(FLit(3, 10), nm.centralization),
                      FMul(FLit(3, 10), FSub(One, nm.clustering_coefficient))),
                 FMul(FLit(4, 10), density.v))
        liquidity_risk ==
            FAdd(FAdd(FMul(FLit(4, 10), FSub(One, lm.liquidity_ratio)),
                      FMul(FLit(3, 10), lm.bid_ask_spread)),
                 FMul(FLit(3, 10), FSub(One, lm.turnover_ratio)))
        systemic_risk ==
            FAdd(FAdd(FMul(FLit(3, 10), network_risk),
                      FMul(FLit(4, 10), liquidity_risk)),
                 FMul(FLit(3, 10), operational_risk))
    IN  IF ~density.ok THEN density
        ELSE Ok(Clamp(systemic_risk))

\* AdvancedRiskModels.assess_systemic_risk(network_metrics,
\* liquidity_metrics, operational_risk)
ARM_assess_systemic_risk(network_metrics, liquidity_metrics, operational_risk) ==
    LET nm == network_metrics
        lm == liquidity_metrics
        density == PyDiv(nm.average_degree, FromInt(nm.node_count))
        network_risk ==
            FAdd(FAdd(FMul(FLit(3, 10), nm.centralization),
                      FMul(FLit(3, 10), FSub(One, nm.clustering_coefficient))),
                 FMul(FLit(4, 10), density.v))
        liquidity_risk ==
            FAdd(FAdd(FMul(FLit(4, 10), FSub(One, lm.liquidity_ratio)),
                      FMul(FLit(3, 10), lm.bid_ask_spread)),
                 FMul(FLit(3, 10), FSub(One, lm.turnover_ratio)))
        systemic_risk ==
            FAdd(FAdd(FMul(FLit(4, 10), network_risk),
                      FMul(FLit(3, 10), liquidity_risk)),
                 FMul(FLit(3, 10), operational_risk))
    IN  IF ~density.ok THEN density
        ELSE Ok(Clamp(systemic_risk))

\* ShockedConditions without the .copy(): the shocks are written into the
\* caller's dictionary.
ShockedConditions_InPlace(initial_conditions, shocks) ==
    IF DOMAIN shocks \subseteq DOMAIN initial_conditions
    THEN LET shocked == [key \in DOMAIN initial_conditions |->
                            IF key \in DOMAIN shocks
                            THEN FMul(initial_conditions[key],
                                      FAdd(One, shocks[key]))
                            ELSE initial_conditions[key]]
         IN  [ic |-> shocked, res |-> Ok(shocked)]
    ELSE [ic |-> initial_conditions, res |-> Raise("KeyError")]

\* ShockedConditions that builds the shocked dictionary from the shocks
\* alone: the fields no shock names are lost.
ShockedConditions_OnlyShocked(initial_conditions, shocks) ==
    [ic |-> initial_conditions,
     res |-> IF DOMAIN shocks \subseteq DOMAIN initial_conditions
             THEN Ok([key \in DOMAIN shocks |->
                        FMul(initial_conditions[key], FAdd(One, shocks[key]))])
             ELSE Raise("KeyError")]

\* ShockedConditions with shocked_conditions.get(key, 0) * (1 + value): a
\* shock on a field the conditions do not have creates the field.
ShockedConditions_Default(initial_conditions, shocks) ==
    [ic |-> initial_conditions,
     res |-> Ok([key \in DOMAIN initial_conditions \cup DOMAIN shocks |->
                   IF key \notin DOMAIN initial_conditions THEN Zero
                   ELSE IF key \in DOMAIN shocks
                   THEN FMul(initial_conditions[key], FAdd(One, shocks[key]))
                   ELSE initial_conditions[key]])]

\* The conditions a scenario is computed on: initial_conditions.copy() with
\* shocked_conditions[key] *= (1 + value) for every shock.  `ic` is the
\* caller's dictionary after the writes (untouched: the writes go to the
\* copy), `res` the shocked conditions, or the KeyError of a shock that
\* names a field the conditions do not have.
ShockedConditions(initial_conditions, shocks) ==
    [ic |-> initial_conditions,
     res |-> IF DOMAIN shocks \subseteq DOMAIN initial_conditions
             THEN Ok([key \in DOMAIN initial_conditions |->
                        IF key \in DOMAIN shocks
                        THEN FMul(initial_conditions[key],
                                  FAdd(One, shocks[key]))
                        ELSE initial_conditions[key]])
             ELSE Raise("KeyError")]

\* results.insert(0, {...}) in place of results.append({...}).
AppendRow_Prepend(results, row) == <<row>> \o results

\* results.append({...}): the list with the row added at its end.
AppendRow(results, row) == Append(results, row)

\* StressRow that reports the turnover ratio as the row's liquidity_risk.
StressRow_Turnover(scenario, sc, network_risk, liquidity_risk, operational_risk) ==
    IF ~sc.ok THEN sc
    ELSE IF "network" \notin scenario.keys THEN Raise("KeyError")
    ELSE IF ~network_risk.ok THEN network_risk
    ELSE IF ~liquidity_risk.ok THEN liquidity_risk
    ELSE IF ~operational_risk.ok THEN operational_risk
    ELSE LET systemic_risk ==
                 ARM_assess_systemic_risk(network_risk.v, liquidity_risk.v,
                                          operational_risk.v)
         IN IF ~systemic_risk.ok THEN systemic_risk
            ELSE IF "name" \notin scenario.keys THEN Raise("KeyError")
            ELSE Ok([scenario |-> scenario.name,
                     network_risk |-> network_risk.v.centralization,
                     liquidity_risk |-> liquidity_risk.v.turnover_ratio,
                     operational_risk |-> operational_risk.v,
                     systemic_risk |-> systemic_risk.v])

\* The row stress_test appends for a scenario, or the exception the loop
\* body raises, given the outcomes of its calls in the order it makes them.
StressRow(scenario, sc, network_risk, liquidity_risk, operational_risk) ==
    IF ~sc.ok THEN sc
    ELSE IF "network" \notin scenario.keys THEN Raise("KeyError")
    ELSE IF ~network_risk.ok THEN network_risk
    ELSE IF ~liquidity_risk.ok THEN liquidity_risk
    ELSE IF ~operational_risk.ok THEN operational_risk
    ELSE LET systemic_risk ==
                 ARM_assess_systemic_risk(network_risk.v, liquidity_risk.v,
                                          operational_risk.v)
         IN IF ~systemic_risk.ok THEN systemic_risk
            ELSE IF "name" \notin scenario.keys THEN Raise("KeyError")
            ELSE Ok([scenario |-> scenario.name,
                     network_risk |-> network_risk.v.centralization,
                     liquidity_risk |-> liquidity_risk.v.liquidity_ratio,
                     operational_risk |-> operational_risk.v,
                     systemic_risk |-> systemic_risk.v])

\* One pass of the body of stress_test's loop over a scenario (a dict with
\* the keys `scenario.keys`): the caller's dictionary after it, and the
\* row it appends or the exception it raises.
StressIteration(initial_conditions, scenario) ==
    IF "shocks" \notin scenario.keys
    THEN [ic |-> initial_conditions, res |-> Raise("KeyError")]
    ELSE CHOOSE out \in
           { [ic |-> sc.ic,
              res |-> CHOOSE r \in
                        { StressRow(scenario, sc.res, network_risk,
                                    liquidity_risk, operational_risk) :
                            network_risk \in
                                {calculate_network_risk(scenario.network)},
                            liquidity_risk \in
                                {calculate_liquidity_risk(sc.res.v)},
                            operational_risk \in
                                {ARM_assess_operational_risk(sc.res.v)} } : TRUE] :
               sc \in {ShockedConditions(initial_conditions, scenario.shocks)} } :
           TRUE

\* ------------------------------------------------------------------ *\
\* Value at Risk and Expected Shortfall (risk_analytics.py)              *
\* ------------------------------------------------------------------ *\

\* The sequence s in ascending order (insertion sort).
RECURSIVE Insert(_, _)
Insert(x, s) ==
    IF s = <<>> THEN <<x>>
    ELSE IF FLe(x, Head(s)) THEN <<x>> \o s
    ELSE <<Head(s)>> \o Insert(x, Tail(s))

RECURSIVE SortAsc(_)
SortAsc(s) == IF s = <<>> THEN <<>> ELSE Insert(Head(s), SortAsc(Tail(s)))

\* floor of a finite float x >= 0, as an integer.
FloorInt(x) == IF x.e >= 0 THEN x.m * Pow2(x.e) ELSE x.m \div Pow2(-x.e)

\* numpy's _lerp(a, b, t): a + (b - a) * t, taken from the b side for
\* t >= 0.5.
Lerp(a, b, t) ==
    LET diff_b_a == FSub(b, a)
    IN  IF FGe(t, FLit(1, 2))
        THEN FSub(b, FMul(diff_b_a, FSub(One, t)))
        ELSE FAdd(a, FMul(diff_b_a, t))

\* RiskAnalytics.calculate_var(returns, confidence_level):
\* np.percentile(returns, (1 - confidence_level) * 100), method 'linear',
\* for a non-empty series.
calculate_var(returns, confidence_level) ==
    LET n == Len(returns)
        arr == SortAsc(returns)
        q == DivNZ(FMul(FSub(One, confidence_level), FromInt(100)), FromInt(100))
        virtual_index == FMul(FromInt(n - 1), q)
        above == FGe(virtual_index, FromInt(n - 1))
        previous_index == IF above THEN n - 1 ELSE FloorInt(virtual_index)
        next_index == IF above THEN n - 1 ELSE previous_index + 1
        gamma == IF above THEN FAdd(virtual_index, One)
                 ELSE FSub(virtual_index, FromInt(previous_index))
    IN  IF ~(FGe(q, Zero) /\ FLe(q, One)) THEN Raise("ValueError")
        ELSE Ok(Lerp(arr[previous_index + 1], arr[next_index + 1], gamma))

\* returns[returns <= var]
RECURSIVE SelectLe(_, _)
SelectLe(returns, var) ==
    IF returns = <<>> THEN <<>>
    ELSE IF FLe(Head(returns), var)
         THEN <<Head(returns)>> \o SelectLe(Tail(returns), var)
         ELSE SelectLe(Tail(returns), var)

\* The running float sum of a sequence, left to right from 0.
RECURSIVE FSumFrom(_, _)
FSumFrom(acc, s) == IF s = <<>> THEN acc ELSE FSumFrom(FAdd(acc, Head(s)), Tail(s))

\* np.mean(a): the float sum divided by the count; nan for no elements.
NpMean(a) == NpDiv(FSumFrom(Zero, a), FromInt(Len(a)))

\* RiskAnalytics.calculate_expected_shortfall(returns, var)
calculate_expected_shortfall(returns, var) == Ok(NpMean(SelectLe(returns, var)))

\* The local variables generate_risk_report assigns, in statement order.
ReportStatements ==
    << "var_95", "var_99", "expected_shortfall",
       "liquidity_risk", "operational_risk", "systemic_risk" >>

\* The locals of a call of generate_risk_report before its first statement.
NoLocals == [name \in {ReportStatements[i] : i \in 1..Len(ReportStatements)} |-> Zero]

\* One assignment of generate_risk_report: the value it binds, or the
\* exception it raises. `returns` is an array or a plain Python list with
\* its values; on a list, returns <= var is an array of booleans and
\* indexing the list with it raises TypeError.
ReportStatement(name, returns, trading_metrics, operational_metrics, systemic_metrics, locals) ==
    CASE name = "var_95" -> calculate_var(returns.values, FLit(95, 100))
      [] name = "var_99" -> calculate_var(returns.values, FLit(99, 100))
      [] name = "expected_shortfall" ->
            IF returns.kind = "list" THEN Raise("TypeError")
            ELSE calculate_expected_shortfall(returns.values, locals.var_95)
      [] name = "liquidity_risk" ->
            IF ~HasKeys(trading_metrics, {"volume", "market_cap", "spread"})
            THEN Raise("KeyError")
            ELSE assess_liquidity_risk(trading_metrics["volume"],
                                       trading_metrics["market_cap"],
                                       trading_metrics["spread"])
      [] name = "operational_risk" ->
            IF ~HasKeys(operational_metrics, {"uptime", "volume", "error_rate"})
            THEN Raise("KeyError")
            ELSE RA_assess_operational_risk(operational_metrics["uptime"],
                                            operational_metrics["volume"],
                                            operational_metrics["error_rate"])
      [] name = "systemic_risk" ->
            IF ~HasKeys(systemic_metrics,
                        {"network_size", "concentration", "interdependency"})
            THEN Raise("KeyError")
            ELSE RA_assess_systemic_risk(systemic_metrics["network_size"],
                                         systemic_metrics["concentration"],
                                         systemic_metrics["interdependency"])

\* RiskMetrics(var_95=..., ..., systemic_risk=...)
RiskMetrics(locals) == locals

\* The statements of generate_risk_report from the i-th on: the first one
\* that raises ends the call.
RECURSIVE ReportFrom(_, _, _, _, _, _)
ReportFrom(i, returns, trading_metrics, operational_metrics, systemic_metrics, locals) ==
    IF i > Len(ReportStatements) THEN Ok(RiskMetrics(locals))
    ELSE CHOOSE out \in
           { IF r.ok
             THEN ReportFrom(i + 1, returns, trading_metrics, operational_metrics,
                             systemic_metrics,
                             [locals EXCEPT ![ReportStatements[i]] = r.v])
             ELSE r :
             r \in { ReportStatement(ReportStatements[i], returns, trading_metrics,
                                     operational_metrics, systemic_metrics,
                                     locals) } } : TRUE

\* RiskAnalytics.generate_risk_report(returns, trading_metrics,
\* operational_metrics, systemic_metrics)
generate_risk_report(returns, trading_metrics, operational_metrics, systemic_metrics) ==
    ReportFrom(1, returns, trading_metrics, operational_metrics,
               systemic_metrics, NoLocals)

\* ------------------------------------------------------------------ *\
\* AdvancedCompliance (advanced_compliance.py)                           *
\* ------------------------------------------------------------------ *\

Frameworks == {"MICA", "GENIUS", "FSB", "BIS", "FATF"}

\* The weights table of calculate_risk_score.
Weight(framework) ==
    CASE framework = "MICA" -> FLit(3, 10)
      [] framework = "GENIUS" -> FLit(3, 10)
      [] framework = "FSB" -> FLit(2, 10)
      [] framework = "BIS" -> FLit(1, 10)
      [] framework = "FATF" -> FLit(1, 10)
      [] OTHER -> FLit(1, 10)

\* AdvancedCompliance.calculate_risk_score(metrics); a metric is its
\* framework and its compliance_score.
calculate_risk_score(metrics) ==
    IF metrics = <<>> THEN Ok(One)
    ELSE LET weighted_scores ==
                 [i \in 1..Len(metrics) |->
                     FMul(metrics[i].compliance_score, Weight(metrics[i].framework))]
         IN  Ok(FSub(One, FSumFrom(Zero, weighted_scores)))

\* A string as the sequence of its pieces, every '_' a piece of its own:
\* f"{a}_{b}" is a \o <<"_">> \o b.  The f-string renders a member of a
\* (str, Enum) class as one piece without '_'.
EnumFormat(member) == <<member>>

\* AdvancedCompliance.__init__
AdvancedComplianceInit ==
    [requirements |-> <<>>, metrics |-> <<>>, reporting_schedules |-> <<>>]

\* d[key] = value on a dict.
SetItem(d, key, value) ==
    [k \in DOMAIN d \cup {key} |-> IF k = key THEN value ELSE d[k]]

\* AdvancedCompliance.add_requirement(requirement): self after the call.
AC_add_requirement(self, requirement) ==
    [self EXCEPT !.requirements =
        SetItem(self.requirements,
                EnumFormat(requirement.framework) \o <<"_">>
                    \o requirement.requirement_id,
                requirement)]

\* The ComplianceMetrics both checks build from their violations; clock
\* holds the two readings of datetime.now().
CheckMetrics(framework, requirement_id, violations, corrective_actions, clock) ==
    [framework |-> framework,
     requirement_id |-> requirement_id,
     compliance_score |->
         FSub(One, FMul(FromInt(Len(violations)), FLit(2, 10))),
     last_check |-> clock[1],
     next_check |-> clock[2] + 1,
     violations |-> violations,
     corrective_actions |-> corrective_actions,
     status |->
         IF FGe(FSub(One, FMul(FromInt(Len(violations)), FLit(2, 10))),
                FLit(8, 10))
         THEN "Compliant" ELSE "Non-compliant"]

\* check_mica_compliance with the reserve threshold taken from the
\* registered requirements when there are any.
check_mica_compliance_Registry(self, reserve_data, transaction_data, clock) ==
    IF "ratio" \notin DOMAIN reserve_data THEN Raise("KeyError")
    ELSE IF "amount" \notin DOMAIN transaction_data THEN Raise("KeyError")
    ELSE Ok(CheckMetrics("MICA", <<"MICA", "_", "001">>,
            (IF FLt(reserve_data.ratio, One) \/ DOMAIN self.requirements # {}
             THEN <<"Insufficient reserves">> ELSE <<>>)
            \o (IF FGt(transaction_data.amount, FromInt(1000000))
                THEN <<"Transaction limit exceeded">> ELSE <<>>),
            (IF FLt(reserve_data.ratio, One) \/ DOMAIN self.requirements # {}
             THEN <<"Increase reserve holdings">> ELSE <<>>)
            \o (IF FGt(transaction_data.amount, FromInt(1000000))
                THEN <<"Implement transaction limits">> ELSE <<>>),
            clock))

\* AdvancedCompliance.check_mica_compliance(reserve_data, transaction_data)
check_mica_compliance(self, reserve_data, transaction_data, clock) ==
    IF "ratio" \notin DOMAIN reserve_data THEN Raise("KeyError")
    ELSE IF "amount" \notin DOMAIN transaction_data THEN Raise("KeyError")
    ELSE Ok(CheckMetrics("MICA", <<"MICA", "_", "001">>,
            (IF FLt(reserve_data.ratio, One)
             THEN <<"Insufficient reserves">> ELSE <<>>)
            \o (IF FGt(transaction_data.amount, FromInt(1000000))
                THEN <<"Transaction limit exceeded">> ELSE <<>>),
            (IF FLt(reserve_data.ratio, One)
             THEN <<"Increase reserve holdings">> ELSE <<>>)
            \o (IF FGt(transaction_data.amount, FromInt(1000000))
                THEN <<"Implement transaction limits">> ELSE <<>>),
            clock))

\* AdvancedCompliance.check_genius_compliance(stablecoin_data, kyc_data)
check_genius_compliance(self, stablecoin_data, kyc_data, clock) ==
    IF "reserve_ratio" \notin DOMAIN stablecoin_data THEN Raise("KeyError")
    ELSE IF "completion_rate" \notin DOMAIN kyc_data THEN Raise("KeyError")
    ELSE Ok(CheckMetrics("GENIUS", <<"GENIUS", "_", "001">>,
            (IF FLt(stablecoin_data.reserve_ratio, One)
             THEN <<"Insufficient reserves">> ELSE <<>>)
            \o (IF FLt(kyc_data.completion_rate, FLit(95, 100))
                THEN <<"Incomplete KYC">> ELSE <<>>),
            (IF FLt(stablecoin_data.reserve_ratio, One)
             THEN <<"Increase reserve holdings">> ELSE <<>>)
            \o (IF FLt(kyc_data.completion_rate, FLit(95, 100))
                THEN <<"Complete KYC for all users">> ELSE <<>>),
            clock))

\* AdvancedCompliance.generate_compliance_report(metrics): the rows of the
\* returned DataFrame.
AC_generate_compliance_report(self, metrics) ==
    Ok([i \in 1..Len(metrics) |->
          [framework |-> metrics[i].framework,
           requirement_id |-> metrics[i].requirement_id,
           compliance_score |-> metrics[i].compliance_score,
           status |-> metrics[i].status,
           violations |-> Len(metrics[i].violations),
           corrective_actions |-> Len(metrics[i].corrective_actions),
           last_check |-> metrics[i].last_check,
           next_check |-> metrics[i].next_check]])

\* x != y on Python floats: NaN differs from everything, itself included.
FNe(x, y) == IsNaN(x) \/ IsNaN(y) \/ x # y

\* The keys of {req.requirement_id: req for req in reqs}, in the dict's
\* order: each id at the place of its first occurrence.
RECURSIVE DictKeys(_)
DictKeys(reqs) ==
    IF reqs = <<>> THEN <<>>
    ELSE LET front == DictKeys(SubSeq(reqs, 1, Len(reqs) - 1))
             id == reqs[Len(reqs)].requirement_id
         IN  IF \E i \in 1..Len(front) : front[i] = id THEN front
             ELSE Append(front, id)

\* {req.requirement_id: req for req in reqs}: the last requirement of each
\* id is the one the dict keeps.
RequirementDict(reqs) ==
    [id \in {reqs[i].requirement_id : i \in 1..Len(reqs)} |->
        reqs[CHOOSE i \in 1..Len(reqs) :
                /\ reqs[i].requirement_id = id
                /\ \A j \in (i + 1)..Len(reqs) : reqs[j].requirement_id # id]]

\* The first loop of monitor_regulatory_changes, over the keys of new_dict.
RECURSIVE NewChanges(_, _, _)
NewChanges(keys, current_dict, new_dict) ==
    IF keys = <<>> THEN <<>>
    ELSE LET req_id == Head(keys)
             rest == NewChanges(Tail(keys), current_dict, new_dict)
         IN  IF req_id \notin DOMAIN current_dict
             THEN << [type |-> "new", requirement_id |-> req_id,
                      description |-> new_dict[req_id].description,
                      effective_date |-> new_dict[req_id].effective_date] >>
                  \o rest
             ELSE rest

\* The second loop, over the keys of new_dict.
RECURSIVE ModifiedChanges(_, _, _)
ModifiedChanges(keys, current_dict, new_dict) ==
    IF keys = <<>> THEN <<>>
    ELSE LET req_id == Head(keys)
             rest == ModifiedChanges(Tail(keys), current_dict, new_dict)
         IN  IF /\ req_id \in DOMAIN current_dict
                /\ FNe(new_dict[req_id].threshold, current_dict[req_id].threshold)
             THEN << [type |-> "modified", requirement_id |-> req_id,
                      old_threshold |-> current_dict[req_id].threshold,
                      new_threshold |-> new_dict[req_id].threshold,
                      effective_date |-> new_dict[req_id].effective_date] >>
                  \o rest
             ELSE rest

\* The third loop, over the keys of current_dict.
RECURSIVE RemovedChanges(_, _, _)
RemovedChanges(keys, current_dict, new_dict) ==
    IF keys = <<>> THEN <<>>
    ELSE LET req_id == Head(keys)
             rest == RemovedChanges(Tail(keys), current_dict, new_dict)
         IN  IF req_id \notin DOMAIN new_dict
             THEN << [type |-> "removed", requirement_id |-> req_id,
                      description |-> current_dict[req_id].description] >>
                  \o rest
             ELSE rest

\* AdvancedCompliance.monitor_regulatory_changes(current_requirements,
\* new_requirements)
monitor_regulatory_changes(current_requirements, new_requirements) ==
    LET current_dict == RequirementDict(current_requirements)
        new_dict == RequirementDict(new_requirements)
    IN  Ok(NewChanges(DictKeys(new_requirements), current_dict, new_dict)
           \o ModifiedChanges(DictKeys(new_requirements), current_dict, new_dict)
           \o RemovedChanges(DictKeys(current_requirements), current_dict, new_dict))

\* ------------------------------------------------------------------ *\
\* CBDCSimulator (cbdc_simulator.py)                                      *
\* ------------------------------------------------------------------ *\

\* e^(-p/d) to four digits, for the periods and divisors of the two
\* simulation loops: <<p, d, numerator, denominator>>.
ExpFractions ==
    { <<0, 1, 1, 1>>,
      <<1, 3, 7165, 10000>>, <<2, 3, 5134, 10000>>, <<3, 3, 3679, 10000>>,
      <<1, 6, 8465, 10000>>, <<3, 6, 6065, 10000>>,
      <<1, 4, 7788, 10000>>, <<3, 4, 4724, 10000>> }

\* np.exp(-period/d): the tabulated value of the float -period/d, rounded.
ExpNeg(period, d) ==
    LET x == RoundRat(-period, d, 0)
        p == CHOOSE q \in ExpFractions : RoundRat(-q[1], q[2], 0) = x
    IN  RoundRat(p[3], p[4], 0)

\* CBDCParameters of the API's simulator: interest_rate=0.02 and
\* transaction_limit=1000000 are the fields the simulations read.
ApiParameters ==
    [interest_rate |-> FLit(2, 100), transaction_limit |-> FromInt(1000000)]

\* The row simulate_monetary_transmission appends for one period.
TransmissionRow(parameters, policy_rate_change, period) ==
    LET current_rate == parameters.interest_rate
        cbdc_rate == FAdd(current_rate,
                          FMul(policy_rate_change, FSub(One, ExpNeg(period, 3))))
        deposit_rate == FMul(cbdc_rate, FLit(8, 10))
        lending_rate == FAdd(deposit_rate, FLit(2, 1))
        money_velocity ==
            FMul(FLit(15, 10),
                 FAdd(One, FMul(FLit(1, 10), FSub(cbdc_rate, current_rate))))
        inflation_impact ==
            FMul(FMul(FLit(-2, 10), policy_rate_change),
                 FSub(One, ExpNeg(period, 6)))
    IN  [period |-> period, cbdc_rate |-> cbdc_rate,
         deposit_rate |-> deposit_rate, lending_rate |-> lending_rate,
         money_velocity |-> money_velocity,
         inflation_impact |-> inflation_impact]

\* range(n) as the sequence 0, 1, ..., n - 1 (empty for n <= 0).
Range(n) == [i \in 1..n |-> i - 1]

\* CBDCSimulator.simulate_monetary_transmission(policy_rate_change,
\* simulation_periods): the rows of the returned DataFrame.
simulate_monetary_transmission(parameters, policy_rate_change, simulation_periods) ==
    Ok([i \in 1..simulation_periods |->
            TransmissionRow(parameters, policy_rate_change, Range(simulation_periods)[i])])

\* CBDCSimulator.simulate_cross_border_payment(amount, source_currency,
\* target_currency, exchange_rate); `random` is the value np.random.random()
\* returns.
simulate_cross_border_payment(parameters, amount, source_currency, target_currency, exchange_rate, random) ==
    LET base_settlement_time == FromInt(2)
        network_load_factor == FAdd(One, FMul(FLit(1, 10), random))
        settlement_time == FMul(base_settlement_time, network_load_factor)
        base_fee == FLit(1, 1000)
        cross_border_fee == FLit(2, 1000)
        total_fee == FMul(amount, FAdd(base_fee, cross_border_fee))
    IN  IF FGt(amount, parameters.transaction_limit)
        THEN Raise("ValueError")
        ELSE Ok([amount |-> amount,
                 source_currency |-> source_currency,
                 target_currency |-> target_currency,
                 exchange_rate |-> exchange_rate,
                 settlement_time |-> settlement_time,
                 fees |-> total_fee,
                 final_amount |-> FMul(FSub(amount, total_fee), exchange_rate)])

\* The row simulate_financial_stability appends for one period.
StabilityRow(period) ==
    LET deposit_migration == FMul(FLit(1, 10), FSub(One, ExpNeg(period, 4)))
        bank_funding_cost ==
            FAdd(FLit(2, 100), FMul(FLit(1, 100), deposit_migration))
        interbank_liquidity == FSub(One, FMul(FLit(2, 10), deposit_migration))
        payment_system_resilience ==
            FAdd(FLit(95, 100), FMul(FLit(5, 100), FSub(One, deposit_migration)))
    IN  [period |-> period, deposit_migration |-> deposit_migration,
         bank_funding_cost |-> bank_funding_cost,
         interbank_liquidity |-> interbank_liquidity,
         payment_system_resilience |-> payment_system_resilience]

\* CBDCSimulator.simulate_financial_stability(simulation_periods): the rows
\* of the returned DataFrame.
simulate_financial_stability(simulation_periods) ==
    Ok([i \in 1..simulation_periods |-> StabilityRow(Range(simulation_periods)[i])])

\* raise E(f"<text>{value}"): an exception whose message is a fixed text
\* followed by a value.
RaiseNaming(e, text, value) ==
    [ok |-> FALSE, err |-> e, v |-> Zero, message |-> <<text, value>>]

\* The scenarios dict with bank_run's metrics scaled by severity squared.
CrisisScenarios_Squared(severity) ==
    [bank_run |->
        [deposit_withdrawal_rate |-> FMul(FMul(FLit(3, 10), severity), severity),
         liquidity_impact |-> FMul(FMul(FLit(4, 10), severity), severity),
         system_stress |-> FMul(FMul(FLit(5, 10), severity), severity)],
     cyber_attack |->
        [system_availability |-> FSub(One, FMul(FLit(3, 10), severity)),
         transaction_delay |-> FMul(FromInt(5), severity),
         recovery_time |-> FMul(FromInt(24), severity)],
     regulatory_change |->
        [compliance_cost |-> FMul(FromInt(1000000), severity),
         implementation_time |-> FMul(FromInt(30), severity),
         market_impact |-> FMul(FLit(2, 10), severity)]]

\* The scenarios dict of simulate_crisis_scenario.
CrisisScenarios(severity) ==
    [bank_run |->
        [deposit_withdrawal_rate |-> FMul(FLit(3, 10), severity),
         liquidity_impact |-> FMul(FLit(4, 10), severity),
         system_stress |-> FMul(FLit(5, 10), severity)],
     cyber_attack |->
        [system_availability |-> FSub(One, FMul(FLit(3, 10), severity)),
         transaction_delay |-> FMul(FromInt(5), severity),
         recovery_time |-> FMul(FromInt(24), severity)],
     regulatory_change |->
        [compliance_cost |-> FMul(FromInt(1000000), severity),
         implementation_time |-> FMul(FromInt(30), severity),
         market_impact |-> FMul(FLit(2, 10), severity)]]

\* CBDCSimulator.simulate_crisis_scenario(scenario_type, severity)
simulate_crisis_scenario(scenario_type, severity) ==
    IF scenario_type \notin DOMAIN CrisisScenarios(severity)
    THEN RaiseNaming("ValueError", "Unknown scenario type: ", scenario_type)
    ELSE Ok(CrisisScenarios(severity)[scenario_type])

\* ------------------------------------------------------------------ *\
\* EconomicModels (economic_models.py)                                 *
\* ------------------------------------------------------------------ *\

\* Python's None where a float is optional.
None == [k |-> "none", m |-> 0, e |-> 0]

\* x or y: y when x is falsy (None or zero), else x.
PyOr(x, y) == IF x = None \/ x = Zero THEN y ELSE x

\* EconomicModels.taylor_rule(inflation_rate, output_gap, natural_rate)
taylor_rule(parameters, inflation_rate, output_gap, natural_rate) ==
    Ok(FAdd(FAdd(PyOr(natural_rate, parameters.natural_rate),
                 FMul(parameters.inflation_weight,
                      FSub(inflation_rate, parameters.inflation_target))),
            FMul(parameters.output_gap_weight, output_gap)))

\* EconomicModels.phillips_curve(unemployment_rate, expected_inflation,
\* supply_shock)
phillips_curve(unemployment_rate, expected_inflation, supply_shock) ==
    FAdd(FSub(expected_inflation,
              FMul(FLit(5, 10), FSub(unemployment_rate, FLit(5, 100)))),
         supply_shock)

\* EconomicModels.money_multiplier(reserve_ratio, currency_ratio, cbdc_ratio)
money_multiplier(reserve_ratio, currency_ratio, cbdc_ratio) ==
    PyDiv(One, FAdd(FAdd(reserve_ratio, currency_ratio), cbdc_ratio))

\* One pass of the loop of simulate_monetary_impact: the row appended for
\* period, given the row of the period before (or the initial conditions),
\* or the exception that ends the call.
ImpactRow(initial_conditions, policy_shock, period, prev) ==
    IF "potential_output" \notin DOMAIN initial_conditions
    THEN Raise("KeyError")
    ELSE LET output_gap == PyDiv(FSub(initial_conditions.output,
                                      initial_conditions.potential_output),
                                 initial_conditions.potential_output)
             cbdc_adoption == PyMin(FAdd(prev.cbdc_adoption, FLit(1, 100)), One)
         IN  IF ~output_gap.ok THEN output_gap
             ELSE IF {"unemployment", "reserve_ratio", "currency_ratio"}
                         \ DOMAIN initial_conditions # {}
             THEN Raise("KeyError")
             ELSE LET multiplier ==
                          money_multiplier(initial_conditions.reserve_ratio,
                                           initial_conditions.currency_ratio,
                                           cbdc_adoption)
                  IN  IF ~multiplier.ok THEN multiplier
                      ELSE Ok([period |-> period,
                               interest_rate |->
                                   FAdd(prev.interest_rate,
                                        FMul(policy_shock,
                                             FSub(One, ExpNeg(period, 3)))),
                               inflation |->
                                   phillips_curve(initial_conditions.unemployment,
                                                  prev.inflation, Zero),
                               output_gap |-> output_gap.v,
                               cbdc_adoption |-> cbdc_adoption,
                               money_multiplier |-> multiplier.v])

\* The loop of simulate_monetary_impact from `period` on.
RECURSIVE ImpactFrom(_, _, _, _, _, _)
ImpactFrom(period, initial_conditions, policy_shock, periods, prev, results) ==
    IF period >= periods THEN Ok(results)
    ELSE CHOOSE out \in
           { IF ~row.ok THEN row
             ELSE ImpactFrom(period + 1, initial_conditions, policy_shock,
                             periods, row.v, Append(results, row.v)) :
             row \in {ImpactRow(initial_conditions, policy_shock, period, prev)} } : TRUE

\* EconomicModels.simulate_monetary_impact(initial_conditions, policy_shock,
\* periods): the rows of the returned DataFrame.
simulate_monetary_impact(initial_conditions, policy_shock, periods) ==
    IF {"interest_rate", "inflation", "output", "cbdc_adoption"}
           \ DOMAIN initial_conditions # {}
    THEN Raise("KeyError")
    ELSE ImpactFrom(0, initial_conditions, policy_shock, periods,
                    initial_conditions, <<>>)

\* ------------------------------------------------------------------ *\
\* RegulatoryCompliance (regulatory_compliance.py)                       *
\* ------------------------------------------------------------------ *\

\* class Jurisdiction
Jurisdiction == {"US", "EU", "UK", "CHINA", "JAPAN", "SINGAPORE"}

\* A requirements table whose EU entry is 2.0.
RequiredRatio_EU(jurisdiction) ==
    IF jurisdiction = "EU" THEN FLit(2, 1) ELSE FLit(1, 1)

\* requirements.get(jurisdiction, 1.0): the table holds 1.0 for each of
\* the six jurisdictions, and 1.0 is the default.
RequiredRatio(jurisdiction) ==
    IF jurisdiction \in Jurisdiction THEN FLit(1, 1) ELSE FLit(1, 1)

\* RegulatoryCompliance.check_reserve_adequacy(total_liabilities,
\* reserve_assets, jurisdiction)
check_reserve_adequacy(total_liabilities, reserve_assets, jurisdiction) ==
    LET required_ratio == RequiredRatio(jurisdiction)
        actual_ratio == PyDiv(reserve_assets, total_liabilities)
    IN  IF ~actual_ratio.ok THEN actual_ratio
        ELSE Ok(PyMin(DivNZ(actual_ratio.v, required_ratio), One))

\* RegulatoryCompliance.check_transaction_limits(transaction_amount,
\* jurisdiction)
check_transaction_limits(transaction_amount, jurisdiction) ==
    LET limit == IF jurisdiction \in Jurisdiction THEN FromInt(1000000) ELSE PInf
    IN  Ok(FLe(transaction_amount, limit))

\* RegulatoryCompliance.assess_kyc_compliance(total_users, kyc_completed),
\* on ints.
assess_kyc_compliance(total_users, kyc_completed) ==
    IF total_users > 0 THEN Ok(RoundRat(kyc_completed, total_users, 0)) ELSE Ok(Zero)

\* RegulatoryCompliance.assess_aml_compliance(transaction_volume,
\* suspicious_transactions, risk_score)
assess_aml_compliance(transaction_volume, suspicious_transactions, risk_score) ==
    LET suspicious_ratio ==
            IF FGt(transaction_volume, Zero)
            THEN DivNZ(FromInt(suspicious_transactions), transaction_volume)
            ELSE Zero
        compliance_score ==
            FSub(One, FAdd(FMul(FLit(4, 10), suspicious_ratio),
                           FMul(FLit(6, 10), risk_score)))
    IN  Ok(PyMax(PyMin(compliance_score, One), Zero))

\* RegulatoryCompliance.generate_compliance_report(reserve_data,
\* transaction_data, kyc_data, aml_data)
generate_compliance_report(reserve_data, transaction_data, kyc_data, aml_data) ==
    IF ~HasKeys(reserve_data, {"liabilities", "assets", "jurisdiction"})
    THEN Raise("KeyError")
    ELSE CHOOSE out \in
      { IF ~reserve_adequacy.ok THEN reserve_adequacy
        ELSE IF ~HasKeys(transaction_data, {"amount"}) THEN Raise("KeyError")
        ELSE IF ~HasKeys(kyc_data, {"total_users", "kyc_completed"})
             THEN Raise("KeyError")
        ELSE IF ~HasKeys(aml_data, {"transaction_volume",
                                    "suspicious_transactions", "risk_score"})
             THEN Raise("KeyError")
        ELSE Ok([reserve_adequacy |-> reserve_adequacy.v,
                 transaction_limits |->
                    [jurisdiction \in Jurisdiction |->
                        check_transaction_limits(transaction_data["amount"],
                                                 jurisdiction).v],
                 kyc_completion |->
                    assess_kyc_compliance(kyc_data["total_users"],
                                          kyc_data["kyc_completed"]).v,
                 aml_score |->
                    assess_aml_compliance(aml_data["transaction_volume"],
                                          aml_data["suspicious_transactions"],
                                          aml_data["risk_score"]).v,
                 reporting_compliance |-> One]) :
        reserve_adequacy \in
            { check_reserve_adequacy(reserve_data["liabilities"],
                                     reserve_data["assets"],
                                     reserve_data["jurisdiction"]) } } : TRUE

\* RegulatoryCompliance.__init__
RegulatoryComplianceInit ==
    [requirements |-> <<>>, compliance_data |-> <<>>, reporting_schedules |-> <<>>]

\* RegulatoryCompliance.add_requirement(requirement): self after the call.
RC_add_requirement(self, requirement) ==
    [self EXCEPT !.requirements =
        SetItem(self.requirements,
                EnumFormat(requirement.jurisdiction) \o <<"_">>
                    \o requirement.requirement_type,
                requirement)]

\* ------------------------------------------------------------------ *\
\* API (api/main.py)                                                     *
\* ------------------------------------------------------------------ *\

\* str(e) for the exceptions the engines raise. The message of a KeyError
\* is the repr of the missing key; the keys are not told apart here.
PyStr(err) ==
    CASE err = "ValueError" -> "Transaction amount exceeds limit"
      [] err = "ZeroDivisionError" -> "float division by zero"
      [] err = "KeyError" -> "'key'"
      [] err = "TypeError" ->
            "only integer scalar arrays can be converted to a scalar index"
      [] OTHER -> err

\* The response a client gets when no request has been served.
NoResponse == [status |-> 0, detail |-> "", body |-> <<>>]

\* A POST handler whose except clause returns an empty success body.
Endpoint_Swallow(res) ==
    IF res.ok THEN [status |-> 200, detail |-> "", body |-> res.v]
    ELSE [status |-> 200, detail |-> "", body |-> <<>>]

\* The body shared by the five POST handlers, given the outcome `res` of
\* the engine call and the conversion of its result: the result is
\* returned (status 200), and any Exception becomes
\* HTTPException(status_code=400, detail=str(e)).
Endpoint(res) ==
    IF res.ok THEN [status |-> 200, detail |-> "", body |-> res.v]
    ELSE [status |-> 400, detail |-> PyStr(res.err), body |-> <<>>]

\* pd.DataFrame(results) for a list of row dicts: the rows in list order
\* under the columns of the row dicts (no columns for an empty list).
DataFrame(results) ==
    [columns |-> IF results = <<>> THEN <<>>
                 ELSE <<"scenario", "network_risk", "liquidity_risk",
                        "operational_risk", "systemic_risk">>,
     rows |-> results]

\* No outcome yet.
NoRet == [ok |-> FALSE, err |-> "none", v |-> Zero]

\* LoopStep with the loop body wrapped in try/except/continue: a scenario
\* that raises is skipped.
LoopStep_Swallow(results, res) ==
    IF res.ok
    THEN [pc |-> "stress", results |-> AppendRow(results, res.v), ret |-> NoRet]
    ELSE [pc |-> "stress", results |-> results, ret |-> NoRet]

\* What the for loop of stress_test does with the outcome of one pass: a
\* row is appended and the loop goes on; an exception is not caught, it
\* ends the call (the rows collected so far are dropped with the frame).
LoopStep(results, res) ==
    IF res.ok
    THEN [pc |-> "stress", results |-> AppendRow(results, res.v), ret |-> NoRet]
    ELSE [pc |-> "raised", results |-> results, ret |-> res]

\* The loop of stress_test from the i-th scenario on, with the rows
\* collected so far.
RECURSIVE StressFrom(_, _, _, _)
StressFrom(i, initial_conditions, shock_scenarios, results) ==
    IF i > Len(shock_scenarios) THEN Ok(DataFrame(results))
    ELSE CHOOSE out \in
           { IF nxt.pc = "raised" THEN nxt.ret
             ELSE StressFrom(i + 1, it.ic, shock_scenarios, nxt.results) :
             it \in {StressIteration(initial_conditions, shock_scenarios[i])},
             nxt \in {LoopStep(results,
                               StressIteration(initial_conditions,
                                               shock_scenarios[i]).res)} } : TRUE

\* AdvancedRiskModels.stress_test(initial_conditions, shock_scenarios)
stress_test(initial_conditions, shock_scenarios) ==
    StressFrom(1, initial_conditions, shock_scenarios, <<>>)

\* self after a statement of a method of RiskAnalytics or
\* AdvancedRiskModels that bound `value` to the local `name`, with the
\* statement keeping its value in an attribute of self as well.
SelfAfter_Cached(self, name, value) ==
    [self EXCEPT ![CHOOSE a \in DOMAIN self : TRUE] = <<name, value>>]

\* self after a statement of a method of RiskAnalytics or
\* AdvancedRiskModels that bound `value` to the local `name`: outside
\* __init__ no statement assigns to an attribute of self or changes the
\* object an attribute holds.
SelfAfter(self, name, value) == self

\* ------------------------------------------------------------------ *\
\* Inputs                                                                *
\* ------------------------------------------------------------------ *\

\* The float nearest to n/d.
F(n, d) == RoundRat(n, d, 0)

\* A magnitude near the top of the format's range (1e308 in binary64).
Big == Canon(3, Emax - 1)

\* Scalar arguments: in range, out of range (5.0, -1.0) and extreme.
Scalars == {F(-1, 1), Zero, F(1, 2), One, F(5, 1), Big, FNeg(Big)}

\* network_size arguments (ints).
NetworkSizes == {p[1] : p \in ExpTable}

\* Conditions of a stress test: trading data and system metrics in one dict.
BaseConditions ==
    [volume |-> F(2, 1), market_cap |-> F(8, 1), spread |-> F(1, 8),
     depth |-> One, uptime |-> F(7, 8), response_time |-> One,
     target_response_time |-> F(2, 1), security_incidents |-> One,
     total_incidents |-> F(4, 1)]

\* d without the key k.
Without(d, k) == [x \in DOMAIN d \ {k} |-> d[x]]

\* d with d[k] = v.
With(d, k, v) == [x \in DOMAIN d \cup {k} |-> IF x = k THEN v ELSE d[x]]

ConditionSets ==
    { BaseConditions,
      With(With(BaseConditions, "volume", F(3, 1)), "uptime", F(1, 2)),
      Without(BaseConditions, "depth"),
      With(BaseConditions, "market_cap", Zero),
      With(With(BaseConditions, "transaction_volume", F(500000, 1)),
           "error_rate", F(1, 8)) }

\* Adjacency matrices: K4, the 4-cycle, the test's 5-edge graph, a path on
\* 3 nodes, K3, two isolated nodes, a single node, the empty matrix and a
\* 2 x 3 array.
K4 == << <<0,1,1,1>>, <<1,0,1,1>>, <<1,1,0,1>>, <<1,1,1,0>> >>
C4 == << <<0,1,0,1>>, <<1,0,1,0>>, <<0,1,0,1>>, <<1,0,1,0>> >>
TestGraph == << <<0,1,1,0>>, <<1,0,1,1>>, <<1,1,0,1>>, <<0,1,1,0>> >>
Path3 == << <<0,1,0>>, <<1,0,1>>, <<0,1,0>> >>
K3 == << <<0,1,1>>, <<1,0,1>>, <<1,1,0>> >>
Isolated2 == << <<0,0>>, <<0,0>> >>
Single == << <<0>> >>
NonSquare == << <<0,1,0>>, <<1,0,1>> >>
Directed3 == << <<0,1,0>>, <<0,0,1>>, <<1,0,0>> >>
Loops2 == << <<1,1>>, <<1,1>> >>

\* Most nodes of a network given to calculate_network_risk.
MaxNodes == 4

\* The symmetric 0/1 matrices with zero diagonal on n nodes: one for each
\* set of undirected edges.
Graphs(n) ==
    LET pairs == {p \in (1..n) \X (1..n) : p[1] < p[2]}
    IN  { [i \in 1..n |-> [j \in 1..n |->
              IF <<i, j>> \in E \/ <<j, i>> \in E THEN 1 ELSE 0]] :
          E \in SUBSET pairs }

\* Every undirected simple graph of at most MaxNodes nodes (the empty
\* matrix is the graph on no nodes), a matrix that is not square, a
\* directed cycle and a graph with self-loops.
Networks ==
    UNION {Graphs(n) : n \in 0..MaxNodes} \cup {NonSquare, Directed3, Loops2}

AllKeys == {"name", "shocks", "network"}

\* The empty shocks mapping.
NoShocks == [x \in {} |-> Zero]

Scenario(keys, name, shocks, network) ==
    [keys |-> keys, name |-> name, shocks |-> shocks, network |-> network]

\* Shock scenarios: a no-op, two shocks, a shock on a field the conditions
\* do not have, a scenario on a single-node network, and the malformed
\* ones (a missing key, a non-square network).
ScenarioPool ==
    { Scenario(AllKeys, "baseline", NoShocks, K4),
      Scenario(AllKeys, "crash",
               [x \in {"volume", "spread"} |->
                   IF x = "volume" THEN F(-1, 2) ELSE One], C4),
      Scenario(AllKeys, "outage",
               [x \in {"uptime", "response_time"} |->
                   IF x = "uptime" THEN F(-1, 4) ELSE F(3, 1)], TestGraph),
      Scenario(AllKeys, "crash", [x \in {"gdp"} |-> F(1, 2)], K3),
      Scenario(AllKeys, "solo", NoShocks, Single),
      Scenario(AllKeys \ {"name"}, "", NoShocks, K4),
      Scenario(AllKeys \ {"shocks"}, "noshocks", NoShocks, K4),
      Scenario(AllKeys \ {"network"}, "nonetwork", NoShocks, <<>>),
      Scenario(AllKeys, "skewed", NoShocks, NonSquare) }

\* Longest list of scenarios of one stress test.
MaxScenarios == 2

\* Longest return series given to calculate_var and
\* calculate_expected_shortfall.
MaxReturns == 3

\* Longest list of ComplianceMetrics given to calculate_risk_score.
MaxMetrics == 4

\* All sequences over S of length at most n.
RECURSIVE SeqsUpTo(_, _)
SeqsUpTo(S, n) ==
    IF n = 0 THEN {<<>>}
    ELSE LET shorter == SeqsUpTo(S, n - 1)
         IN  shorter \cup {Append(q, x) : q \in shorter, x \in S}

\* System metrics of assess_operational_risk: in range, out of range, and
\* magnitudes whose quotients leave the format's range.
MetricValues == {Zero, F(1, 2), One, Big}

SystemMetrics ==
    { [uptime |-> u, response_time |-> rt, target_response_time |-> trt,
       security_incidents |-> si, total_incidents |-> ti] :
        u \in {F(7, 8), F(5, 1)}, rt \in MetricValues, trt \in MetricValues,
        si \in MetricValues, ti \in MetricValues }

\* NetworkMetrics values: those of the networks above, and an arbitrary one.
NetworkMetricsPool ==
    { calculate_network_risk(m).v : m \in {K4, C4, TestGraph, Path3, Isolated2, Single} }
    \cup { [node_count |-> 4, edge_count |-> F(5, 1), average_degree |-> Big,
            clustering_coefficient |-> F(5, 1), centralization |-> F(-1, 1)] }

\* LiquidityMetrics values: those of the conditions above, and an arbitrary one.
LiquidityMetricsPool ==
    { calculate_liquidity_risk(c).v :
        c \in {d \in ConditionSets : calculate_liquidity_risk(d).ok} }
    \cup { [trading_volume |-> Big, bid_ask_spread |-> F(5, 1),
            market_depth |-> Zero, turnover_ratio |-> FNeg(Big),
            liquidity_ratio |-> F(-1, 1)] }

\* Returns of a series, and thresholds.
ReturnPool == {FNeg(Big), F(-7, 1), F(-1, 8), Zero, F(1, 8), Big}

\* Confidence levels strictly between 0 and 1.
ConfidenceLevels == {F(1, 16), F(1, 4), F(1, 2), F(4, 5), F(13, 16), F(15, 16)}

\* The return series [-0.05, -0.02, 0.0, 0.01, 0.03], in that order and in
\* another one.
ExampleReturns ==
    << F(-5, 100), F(-2, 100), Zero, F(1, 100), F(3, 100) >>

ExampleSeries ==
    { ExampleReturns,
      << F(1, 100), F(-5, 100), F(3, 100), Zero, F(-2, 100) >> }

\* ComplianceMetrics: a framework and a compliance_score in [0, 1].
Metric(framework, compliance_score) ==
    [framework |-> framework, compliance_score |-> compliance_score]

MetricPool ==
    { Metric("MICA", One), Metric("MICA", F(1, 2)), Metric("GENIUS", One),
      Metric("FSB", F(1, 2)), Metric("BIS", Zero), Metric("FATF", One) }

\* ComplianceRequirement: the fields monitor_regulatory_changes reads, and
\* the framework.
Requirement(framework, requirement_id, threshold, description) ==
    [framework |-> framework, requirement_id |-> requirement_id,
     threshold |-> threshold, description |-> description,
     effective_date |-> "now"]

\* Requirements of two frameworks, two ids and the thresholds 1.0 and 1.1
\* of the test.
RequirementPool ==
    { Requirement(f, id, t, d) :
        f \in {"MICA", "GENIUS"}, id \in {"MICA_001", "002"},
        t \in {One, F(11, 10)}, d \in {"Test requirement"} }
    \cup { Requirement("MICA", "MICA_001", F(11, 10), "Modified requirement") }

\* Most requirements of a list given to monitor_regulatory_changes.
MaxRequirements == 2

\* Requirement lists: no two requirements of a list share framework and
\* requirement_id (the key of the engine's registry).
RequirementLists ==
    { l \in SeqsUpTo(RequirementPool, MaxRequirements) :
        \A i, j \in 1..Len(l) :
            (l[i].framework = l[j].framework
                /\ l[i].requirement_id = l[j].requirement_id) => i = j }

\* The scenario of the pool with the given name.
ScenarioNamed(name) == CHOOSE sc \in ScenarioPool : sc.name = name

\* Arguments of concurrent calls of generate_risk_report: a complete one
\* on an array, one whose market_cap is 0 and one without the
\* 'interdependency' key.
ReportArgs(returns, market_cap, systemic_keys) ==
    [returns |-> returns,
     trading_metrics |->
        [volume |-> F(2, 1), market_cap |-> market_cap, spread |-> F(1, 8)],
     operational_metrics |->
        [uptime |-> F(7, 8), volume |-> F(1000, 1), error_rate |-> F(1, 8)],
     systemic_metrics |->
        [k \in systemic_keys |->
            IF k = "network_size" THEN 1000 ELSE F(1, 2)]]

SystemicKeys == {"network_size", "concentration", "interdependency"}

NdArray(values) == [kind |-> "ndarray", values |-> values]

PyList(values) == [kind |-> "list", values |-> values]

ReportCalls ==
    { ReportArgs(NdArray(<<F(-1, 8), Zero, F(1, 8)>>), F(8, 1), SystemicKeys),
      ReportArgs(NdArray(<<F(-1, 8), Zero, F(1, 8)>>), Zero, SystemicKeys),
      ReportArgs(NdArray(<<Zero, F(1, 8)>>), F(8, 1),
                 SystemicKeys \ {"interdependency"}) }

\* Arguments of concurrent calls of stress_test: two scenarios that give
\* rows, and a scenario that gives a row followed by one that raises.
StressCalls ==
    { [initial_conditions |-> BaseConditions,
       shock_scenarios |-> <<ScenarioNamed("outage"), ScenarioNamed("baseline")>>],
      [initial_conditions |-> BaseConditions,
       shock_scenarios |-> <<ScenarioNamed("baseline"), ScenarioNamed("nonetwork")>>] }

\* Two threads that call the shared engine instances at the same time.
Threads == {"t1", "t2"}

\* Most periods of a simulation request.
MaxPeriods == 3

\* policy_rate_change of a SimulationRequest.
RateChanges == {F(-1, 100), Zero, F(1, 100), F(1, 2)}

\* amount and exchange_rate of a CrossBorderRequest: amounts under, at and
\* over the transaction limit.
Amounts == {Zero, F(100, 1), FromInt(1000000), FromInt(2000000), Big}

ExchangeRates == {F(85, 100), One}

\* Values of np.random.random().
RandomValues == {Zero, F(15, 16)}

\* RiskAssessmentRequest: returns is a List[float].
RiskRequests ==
    { ReportArgs(PyList(returns), market_cap, systemic_keys) :
        returns \in {<<Zero>>, <<Zero, F(1, 8)>>, <<F(-1, 8), Zero, F(1, 8)>>},
        market_cap \in {Zero, F(8, 1)},
        systemic_keys \in {SystemicKeys, {}} }

\* A dict with the given keys, all of one value.
DictOf(keys, value) == [k \in keys |-> value]

\* ComplianceRequest: four dicts, complete or with a key missing.
ComplianceRequests ==
    { [reserve_data |->
          [k \in rk |-> CASE k = "liabilities" -> liabilities
                          [] k = "assets" -> F(2, 1)
                          [] OTHER -> jurisdiction],
       transaction_data |-> DictOf(tk, amount),
       kyc_data |-> [total_users |-> total_users, kyc_completed |-> 3],
       aml_data |->
          [transaction_volume |-> FromInt(1000),
           suspicious_transactions |-> 5, risk_score |-> F(1, 10)]] :
        rk \in {{"liabilities", "assets", "jurisdiction"}, {"liabilities", "assets"}},
        liabilities \in {Zero, One, F(4, 1)},
        jurisdiction \in {"US", "MARS"},
        tk \in {{"amount"}, {}},
        amount \in {F(100, 1), FromInt(2000000)},
        total_users \in {0, 4} }

\* jurisdiction arguments: the six supported values and one that is not.
JurisdictionArgs == Jurisdiction \cup {"MARS"}

\* scenario_type arguments: the three known types, an unknown one and the
\* empty string.
ScenarioTypes == {"bank_run", "cyber_attack", "regulatory_change", "pandemic", ""}

\* severity arguments: the default 0.5, the example's 0.7, the ends of
\* [0, 1] and values outside it.
Severities == {F(-1, 1), Zero, F(1, 4), F(1, 2), F(7, 10), One, F(2, 1)}

\* EconomicParameters of the tests, and the same with a natural rate of 0.05.
TestParameters ==
    [natural_rate |-> F(2, 100), inflation_target |-> F(2, 100),
     output_gap_weight |-> F(1, 2), inflation_weight |-> F(3, 2),
     money_velocity |-> F(3, 2), fiscal_multiplier |-> One]

ParameterPool == {TestParameters, [TestParameters EXCEPT !.natural_rate = F(5, 100)]}

\* inflation_rate and output_gap of taylor_rule.
InflationRates == {Zero, F(2, 100), F(3, 100)}
OutputGaps == {F(-1, 100), Zero, F(1, 100)}

\* natural_rate of taylor_rule: omitted, zero, and rates on both sides of it.
NaturalRates == {None, Zero, F(-1, 100), F(2, 100), F(4, 100)}

\* initial_conditions of src/test_simulation.py.
TestConditions ==
    [interest_rate |-> F(2, 100), inflation |-> F(2, 100),
     output |-> FromInt(1000), potential_output |-> FromInt(1000),
     unemployment |-> F(5, 100), cbdc_adoption |-> F(1, 10),
     reserve_ratio |-> F(1, 10), currency_ratio |-> F(2, 10)]

\* Initial values of cbdc_adoption: below zero, zero, the test's, just under
\* the cap, the cap, and one over it.
Adoptions == {F(-1, 100), Zero, F(1, 10), F(63, 64), One, F(2, 1)}

\* initial_conditions of simulate_monetary_impact: the test's with each
\* adoption, with no cash and no reserves, and with no potential output.
ImpactConditions ==
    {[TestConditions EXCEPT !.cbdc_adoption = a] : a \in Adoptions}
    \cup {[TestConditions EXCEPT !.cbdc_adoption = a, !.reserve_ratio = Zero,
                                 !.currency_ratio = Zero] : a \in Adoptions}
    \cup {[TestConditions EXCEPT !.potential_output = Zero]}

\* policy_shock of simulate_monetary_impact.
PolicyShocks == {F(-1, 100), F(1, 100)}

\* Requirements added to an AdvancedCompliance engine: two with the same
\* framework and id and different thresholds, and two that share only the
\* framework or only the id.
RegistryRequirement(framework, requirement_id, threshold) ==
    [framework |-> framework, requirement_id |-> requirement_id,
     threshold |-> threshold]

AdvancedRequirements ==
    { RegistryRequirement("MICA", <<"MICA", "_", "001">>, One),
      RegistryRequirement("MICA", <<"MICA", "_", "001">>, F(11, 10)),
      RegistryRequirement("GENIUS", <<"MICA", "_", "001">>, One),
      RegistryRequirement("MICA", <<"001">>, One) }

\* Requirements added to a RegulatoryCompliance engine.
RegulatoryRequirement(jurisdiction, requirement_type, threshold) ==
    [jurisdiction |-> jurisdiction, requirement_type |-> requirement_type,
     threshold |-> threshold]

RegulatoryRequirements ==
    { RegulatoryRequirement("US", <<"reserve">>, One),
      RegulatoryRequirement("US", <<"reserve">>, F(9, 10)),
      RegulatoryRequirement("EU", <<"reserve">>, One),
      RegulatoryRequirement("US", <<"EU", "_", "reserve">>, One) }

\* Most add_requirement calls of one run, over both engines.
MaxAdds == 2

\* The two readings of datetime.now() of a check, in ticks.
Clocks == {<<0, 0>>, <<0, 1>>}

\* Arguments of check_mica_compliance and check_genius_compliance: at and
\* under the thresholds, over the limit, and a dict without the key.
ReserveData == {[ratio |-> F(1, 2)], [ratio |-> One], [reserves |-> One]}
TransactionData == {[amount |-> F(100, 1)], [amount |-> FromInt(2000000)]}
StablecoinData == {[reserve_ratio |-> F(1, 2)], [reserve_ratio |-> One]}
KycData == {[completion_rate |-> F(9, 10)], [completion_rate |-> One], [rate |-> One]}

\* Lists of ComplianceMetrics given to calculate_risk_score and
\* generate_compliance_report: results of the two checks.
CheckedMetrics ==
    { <<>>,
      <<check_mica_compliance(AdvancedComplianceInit, [ratio |-> F(1, 2)],
                              [amount |-> FromInt(2000000)], <<0, 0>>).v>>,
      <<check_mica_compliance(AdvancedComplianceInit, [ratio |-> One],
                              [amount |-> F(100, 1)], <<0, 1>>).v,
        check_genius_compliance(AdvancedComplianceInit, [reserve_ratio |-> One],
                                [completion_rate |-> F(9, 10)], <<0, 0>>).v>> }

\* ------------------------------------------------------------------ *\
\* State                                                                 *
\* ------------------------------------------------------------------ *\

VARIABLES
    pc,                  \* "idle", "called", "stress", "returned", "raised"
    call,                \* the last call of a scoring function: fn, args, res
    initial_conditions,  \* the caller's conditions dict, as it is now
    conditions_at_call,  \* the caller's conditions dict when stress_test was called
    shock_scenarios,     \* the list given to stress_test
    idx,                 \* scenarios the loop has consumed
    results,             \* stress_test's local list of rows
    ret,                 \* the outcome of stress_test
    risk_engine,         \* the attributes of the shared RiskAnalytics instance
    risk_models,         \* the attributes of the shared AdvancedRiskModels instance
    threads,             \* the call each thread is in: its frame and outcome
    response,            \* the response to the last POST request
    advanced_compliance,   \* the attributes of the AdvancedCompliance engine
    regulatory_compliance, \* the attributes of the RegulatoryCompliance engine
    added                  \* the requirements given to add_requirement, per engine, in order

vars == <<pc, call, initial_conditions, conditions_at_call, shock_scenarios,
          idx, results, ret, risk_engine, risk_models, threads, response,
          advanced_compliance, regulatory_compliance, added>>

\* The compliance engines and the record of what was added to them.
complianceVars == <<advanced_compliance, regulatory_compliance, added>>

\* The shared instances and the threads that call them.
sharedVars == <<risk_engine, risk_models, threads>>

\* What a call outside the API leaves alone.
apiVars == <<response>>

\* The caller of the sequential calls.
callerVars == <<pc, call, initial_conditions, conditions_at_call,
                shock_scenarios, idx, results, ret, response>>

stressVars == <<initial_conditions, conditions_at_call, shock_scenarios,
                idx, results, ret>>

\* RiskAnalytics.__init__: self.risk_metrics = {} and
\* self.historical_data = pd.DataFrame()
RiskAnalyticsInit == [risk_metrics |-> <<>>, historical_data |-> <<>>]

\* AdvancedRiskModels.__init__: self.network_metrics = {} and
\* self.liquidity_metrics = {}
AdvancedRiskModelsInit == [network_metrics |-> <<>>, liquidity_metrics |-> <<>>]

\* A thread that is in no call.
NoThread ==
    [op |-> "", args |-> <<>>, pc |-> "idle", idx |-> 0, locals |-> NoLocals,
     ic |-> BaseConditions, results |-> <<>>, ret |-> NoRet,
     overlapped |-> FALSE]

NoCall == [fn |-> "", args |-> <<>>, res |-> NoRet]

Init ==
    /\ pc = "idle"
    /\ call = NoCall
    /\ initial_conditions = BaseConditions
    /\ conditions_at_call = BaseConditions
    /\ shock_scenarios = <<>>
    /\ idx = 0
    /\ results = <<>>
    /\ ret = NoRet
    /\ risk_engine = RiskAnalyticsInit
    /\ risk_models = AdvancedRiskModelsInit
    /\ threads = [t \in Threads |-> NoThread]
    /\ response = NoResponse
    /\ advanced_compliance = AdvancedComplianceInit
    /\ regulatory_compliance = RegulatoryComplianceInit
    /\ added = [advanced |-> <<>>, regulatory |-> <<>>]

\* A call of one scoring function with the given arguments.
Called(fn, args, res) ==
    /\ pc = "idle"
    /\ pc' = "called"
    /\ call' = [fn |-> fn, args |-> args, res |-> res]
    /\ UNCHANGED stressVars
    /\ UNCHANGED sharedVars
    /\ UNCHANGED complianceVars
    /\ UNCHANGED apiVars

CallAssessLiquidityRisk ==
    /\ pc = "idle"
    /\ \E tv \in Scalars, mc \in Scalars, s \in Scalars :
           Called("RiskAnalytics.assess_liquidity_risk", <<tv, mc, s>>,
                  assess_liquidity_risk(tv, mc, s))

CallAssessOperationalRisk ==
    /\ pc = "idle"
    /\ \E su \in Scalars, tv \in Scalars, er \in Scalars :
           Called("RiskAnalytics.assess_operational_risk", <<su, tv, er>>,
                  RA_assess_operational_risk(su, tv, er))

CallAssessSystemicRisk ==
    /\ pc = "idle"
    /\ \E ns \in NetworkSizes, cr \in Scalars, is \in Scalars :
           Called("RiskAnalytics.assess_systemic_risk", <<FromInt(ns), cr, is>>,
                  RA_assess_systemic_risk(ns, cr, is))

CallAdvancedOperationalRisk ==
    /\ pc = "idle"
    /\ \E sm \in SystemMetrics :
           Called("AdvancedRiskModels.assess_operational_risk", <<sm>>,
                  ARM_assess_operational_risk(sm))

CallAdvancedSystemicRisk ==
    /\ pc = "idle"
    /\ \E nm \in NetworkMetricsPool, lm \in LiquidityMetricsPool, op \in Scalars :
           Called("AdvancedRiskModels.assess_systemic_risk", <<nm, lm, op>>,
                  ARM_assess_systemic_risk(nm, lm, op))

CallNetworkRisk ==
    /\ pc = "idle"
    /\ \E m \in Networks :
           Called("AdvancedRiskModels.calculate_network_risk", <<m>>,
                  calculate_network_risk(m))

CallLiquidityRisk ==
    /\ pc = "idle"
    /\ \E td \in ConditionSets :
           Called("AdvancedRiskModels.calculate_liquidity_risk", <<td>>,
                  calculate_liquidity_risk(td))

CallVar ==
    /\ pc = "idle"
    /\ \E r \in (SeqsUpTo(ReturnPool, MaxReturns) \ {<<>>}) \cup ExampleSeries,
          c \in ConfidenceLevels :
           Called("RiskAnalytics.calculate_var", <<r, c>>, calculate_var(r, c))

CallExpectedShortfall ==
    /\ pc = "idle"
    /\ \E r \in SeqsUpTo(ReturnPool, MaxReturns), v \in ReturnPool :
           Called("RiskAnalytics.calculate_expected_shortfall", <<r, v>>,
                  calculate_expected_shortfall(r, v))

CallRiskScore ==
    /\ pc = "idle"
    /\ \E ms \in SeqsUpTo(MetricPool, MaxMetrics) :
           Called("AdvancedCompliance.calculate_risk_score", <<ms>>,
                  calculate_risk_score(ms))

CallMonitorRegulatoryChanges ==
    /\ pc = "idle"
    /\ \E current \in RequirementLists, new \in RequirementLists :
           Called("AdvancedCompliance.monitor_regulatory_changes",
                  <<current, new>>, monitor_regulatory_changes(current, new))

CallCheckReserveAdequacy ==
    /\ pc = "idle"
    /\ \E total_liabilities \in Scalars, reserve_assets \in Scalars,
          jurisdiction \in JurisdictionArgs :
           Called("RegulatoryCompliance.check_reserve_adequacy",
                  <<total_liabilities, reserve_assets, jurisdiction>>,
                  check_reserve_adequacy(total_liabilities, reserve_assets,
                                         jurisdiction))

CallCheckTransactionLimits ==
    /\ pc = "idle"
    /\ \E transaction_amount \in Amounts, jurisdiction \in JurisdictionArgs :
           Called("RegulatoryCompliance.check_transaction_limits",
                  <<transaction_amount, jurisdiction>>,
                  check_transaction_limits(transaction_amount, jurisdiction))

CallCrisisScenario ==
    /\ pc = "idle"
    /\ \E scenario_type \in ScenarioTypes, severity \in Severities :
           Called("CBDCSimulator.simulate_crisis_scenario",
                  <<scenario_type, severity>>,
                  simulate_crisis_scenario(scenario_type, severity))

CallTaylorRule ==
    /\ pc = "idle"
    /\ \E parameters \in ParameterPool, inflation_rate \in InflationRates,
          output_gap \in OutputGaps, natural_rate \in NaturalRates :
           Called("EconomicModels.taylor_rule",
                  <<parameters, inflation_rate, output_gap, natural_rate>>,
                  taylor_rule(parameters, inflation_rate, output_gap, natural_rate))

CallMonetaryImpact ==
    /\ pc = "idle"
    /\ \E ic \in ImpactConditions, policy_shock \in PolicyShocks,
          periods \in 0..MaxPeriods :
           Called("EconomicModels.simulate_monetary_impact",
                  <<ic, policy_shock, periods>>,
                  simulate_monetary_impact(ic, policy_shock, periods))

\* add_requirement on the AdvancedCompliance engine.
AddRequirement ==
    /\ pc \in {"idle", "called"}
    /\ Len(added.advanced) + Len(added.regulatory) < MaxAdds
    /\ \E requirement \in AdvancedRequirements :
        /\ advanced_compliance' = AC_add_requirement(advanced_compliance, requirement)
        /\ added' = [added EXCEPT !.advanced = Append(@, requirement)]
    /\ pc' = "idle"
    /\ call' = NoCall
    /\ UNCHANGED regulatory_compliance
    /\ UNCHANGED stressVars
    /\ UNCHANGED sharedVars
    /\ UNCHANGED apiVars

\* add_requirement on the RegulatoryCompliance engine.
RegulatoryAddRequirement ==
    /\ pc \in {"idle", "called"}
    /\ Len(added.advanced) + Len(added.regulatory) < MaxAdds
    /\ \E requirement \in RegulatoryRequirements :
        /\ regulatory_compliance' =
               RC_add_requirement(regulatory_compliance, requirement)
        /\ added' = [added EXCEPT !.regulatory = Append(@, requirement)]
    /\ pc' = "idle"
    /\ call' = NoCall
    /\ UNCHANGED advanced_compliance
    /\ UNCHANGED stressVars
    /\ UNCHANGED sharedVars
    /\ UNCHANGED apiVars

\* A method of an engine that assigns nothing to self is called.
Checked(fn, args, res) ==
    /\ pc = "idle"
    /\ pc' = "called"
    /\ call' = [fn |-> fn, args |-> args, res |-> res]
    /\ UNCHANGED complianceVars
    /\ UNCHANGED stressVars
    /\ UNCHANGED sharedVars
    /\ UNCHANGED apiVars

CheckMica ==
    /\ pc = "idle"
    /\ \E reserve_data \in ReserveData, transaction_data \in TransactionData,
          clock \in Clocks :
           Checked("AdvancedCompliance.check_mica_compliance",
                   <<reserve_data, transaction_data, clock>>,
                   check_mica_compliance(advanced_compliance, reserve_data,
                                         transaction_data, clock))

CheckGenius ==
    /\ pc = "idle"
    /\ \E stablecoin_data \in StablecoinData, kyc_data \in KycData,
          clock \in Clocks :
           Checked("AdvancedCompliance.check_genius_compliance",
                   <<stablecoin_data, kyc_data, clock>>,
                   check_genius_compliance(advanced_compliance, stablecoin_data,
                                           kyc_data, clock))

EngineRiskScore ==
    /\ pc = "idle"
    /\ \E metrics \in CheckedMetrics :
           Checked("AdvancedCompliance.calculate_risk_score", <<metrics>>,
                   calculate_risk_score(metrics))

EngineComplianceReport ==
    /\ pc = "idle"
    /\ \E metrics \in CheckedMetrics :
           Checked("AdvancedCompliance.generate_compliance_report", <<metrics>>,
                   AC_generate_compliance_report(advanced_compliance, metrics))

EngineReserveAdequacy ==
    /\ pc = "idle"
    /\ \E total_liabilities \in {One, F(5, 1)}, jurisdiction \in {"US", "EU"} :
           Checked("RegulatoryCompliance.check_reserve_adequacy",
                   <<total_liabilities, One, jurisdiction>>,
                   check_reserve_adequacy(total_liabilities, One, jurisdiction))

\* The caller takes the result of a check and goes on.
Resume ==
    /\ pc = "called"
    /\ call.fn \in {"AdvancedCompliance.check_mica_compliance",
                    "AdvancedCompliance.check_genius_compliance",
                    "AdvancedCompliance.calculate_risk_score",
                    "AdvancedCompliance.generate_compliance_report",
                    "RegulatoryCompliance.check_reserve_adequacy"}
    /\ pc' = "idle"
    /\ call' = NoCall
    /\ UNCHANGED complianceVars
    /\ UNCHANGED stressVars
    /\ UNCHANGED sharedVars
    /\ UNCHANGED apiVars

\* stress_test(initial_conditions, shock_scenarios) is entered.
StressBegin ==
    /\ pc = "idle"
    /\ \E ic \in ConditionSets, scns \in SeqsUpTo(ScenarioPool, MaxScenarios) :
        /\ initial_conditions' = ic
        /\ conditions_at_call' = ic
        /\ shock_scenarios' = scns
    /\ idx' = 0
    /\ results' = <<>>
    /\ ret' = NoRet
    /\ pc' = "stress"
    /\ UNCHANGED call
    /\ UNCHANGED sharedVars
    /\ UNCHANGED complianceVars
    /\ UNCHANGED apiVars

\* What one pass of the loop does to the state, given the outcome `it` of
\* the loop body.
LoopPass(it) ==
    /\ pc = "stress"
    /\ idx < Len(shock_scenarios)
    /\ \E done \in {it} :
        \E nxt \in {LoopStep(results, done.res)} :
            /\ initial_conditions' = done.ic
            /\ pc' = nxt.pc
            /\ results' = nxt.results
            /\ ret' = nxt.ret
    /\ idx' = idx + 1
    /\ UNCHANGED <<call, conditions_at_call, shock_scenarios>>
    /\ UNCHANGED sharedVars
    /\ UNCHANGED complianceVars
    /\ UNCHANGED apiVars

\* One pass of the loop over shock_scenarios.
StressStep ==
    LoopPass(StressIteration(initial_conditions, shock_scenarios[idx + 1]))

\* return pd.DataFrame(results)
StressReturn ==
    /\ pc = "stress"
    /\ idx = Len(shock_scenarios)
    /\ ret' = Ok(DataFrame(results))
    /\ pc' = "returned"
    /\ UNCHANGED <<call, initial_conditions, conditions_at_call,
                   shock_scenarios, idx, results>>
    /\ UNCHANGED sharedVars
    /\ UNCHANGED complianceVars
    /\ UNCHANGED apiVars

\* Another thread is inside a call.
OthersRunning(t) == \E u \in Threads \ {t} : threads[u].pc = "running"

\* Thread t calls generate_risk_report on the shared RiskAnalytics.
ReportBegin(t) ==
    /\ threads[t].pc = "idle"
    /\ \E a \in ReportCalls :
           threads' = [threads EXCEPT ![t] =
               [NoThread EXCEPT !.op = "generate_risk_report", !.args = a,
                                !.pc = "running"]]
    /\ UNCHANGED <<risk_engine, risk_models>>
    /\ UNCHANGED callerVars
    /\ UNCHANGED complianceVars

\* Thread t runs the next assignment of generate_risk_report.
ReportStep(t) ==
    /\ threads[t].pc = "running"
    /\ threads[t].op = "generate_risk_report"
    /\ threads[t].idx < Len(ReportStatements)
    /\ \E th \in {threads[t]} :
        \E name \in {ReportStatements[th.idx + 1]} :
        \E r \in { ReportStatement(name, th.args.returns, th.args.trading_metrics,
                                   th.args.operational_metrics,
                                   th.args.systemic_metrics, th.locals) } :
            /\ threads' = [threads EXCEPT ![t] =
                   IF r.ok
                   THEN [th EXCEPT !.idx = th.idx + 1, !.locals[name] = r.v,
                                   !.overlapped = th.overlapped \/ OthersRunning(t)]
                   ELSE [th EXCEPT !.pc = "raised", !.ret = r,
                                   !.overlapped = th.overlapped \/ OthersRunning(t)]]
            /\ risk_engine' = SelfAfter(risk_engine, name, r.v)
    /\ UNCHANGED risk_models
    /\ UNCHANGED callerVars
    /\ UNCHANGED complianceVars

\* return RiskMetrics(...)
ReportReturn(t) ==
    /\ threads[t].pc = "running"
    /\ threads[t].op = "generate_risk_report"
    /\ threads[t].idx = Len(ReportStatements)
    /\ threads' = [threads EXCEPT ![t].pc = "returned",
                                  ![t].ret = Ok(RiskMetrics(threads[t].locals))]
    /\ UNCHANGED <<risk_engine, risk_models>>
    /\ UNCHANGED callerVars
    /\ UNCHANGED complianceVars

\* Thread t calls stress_test on the shared AdvancedRiskModels.
ThreadStressBegin(t) ==
    /\ threads[t].pc = "idle"
    /\ \E a \in StressCalls :
           threads' = [threads EXCEPT ![t] =
               [NoThread EXCEPT !.op = "stress_test", !.args = a,
                                !.ic = a.initial_conditions, !.pc = "running"]]
    /\ UNCHANGED <<risk_engine, risk_models>>
    /\ UNCHANGED callerVars
    /\ UNCHANGED complianceVars

\* Thread t runs one pass of the loop of stress_test.
ThreadStressStep(t) ==
    /\ threads[t].pc = "running"
    /\ threads[t].op = "stress_test"
    /\ threads[t].idx < Len(threads[t].args.shock_scenarios)
    /\ \E th \in {threads[t]} :
        \E it \in {StressIteration(th.ic, th.args.shock_scenarios[th.idx + 1])} :
        \E nxt \in {LoopStep(th.results, it.res)} :
            /\ threads' = [threads EXCEPT ![t] =
                   [th EXCEPT !.idx = th.idx + 1, !.ic = it.ic,
                              !.results = nxt.results, !.ret = nxt.ret,
                              !.pc = IF nxt.pc = "raised" THEN "raised"
                                     ELSE "running",
                              !.overlapped = th.overlapped \/ OthersRunning(t)]]
            /\ risk_models' = SelfAfter(risk_models, "results", nxt.results)
    /\ UNCHANGED risk_engine
    /\ UNCHANGED callerVars
    /\ UNCHANGED complianceVars

\* return pd.DataFrame(results)
ThreadStressReturn(t) ==
    /\ threads[t].pc = "running"
    /\ threads[t].op = "stress_test"
    /\ threads[t].idx = Len(threads[t].args.shock_scenarios)
    /\ threads' = [threads EXCEPT ![t].pc = "returned",
                                  ![t].ret = Ok(DataFrame(threads[t].results))]
    /\ UNCHANGED <<risk_engine, risk_models>>
    /\ UNCHANGED callerVars
    /\ UNCHANGED complianceVars

\* A POST request is served: the engine call and the response to it.
Served(fn, args, res) ==
    /\ pc = "idle"
    /\ pc' = "responded"
    /\ call' = [fn |-> fn, args |-> args, res |-> res]
    /\ response' = Endpoint(res)
    /\ UNCHANGED stressVars
    /\ UNCHANGED sharedVars
    /\ UNCHANGED complianceVars

\* POST /simulation/monetary-transmission
PostMonetaryTransmission ==
    /\ pc = "idle"
    /\ \E policy_rate_change \in RateChanges, simulation_periods \in -1..MaxPeriods :
           Served("CBDCSimulator.simulate_monetary_transmission",
                  <<policy_rate_change, simulation_periods>>,
                  simulate_monetary_transmission(ApiParameters, policy_rate_change,
                                                 simulation_periods))

\* POST /simulation/cross-border
PostCrossBorder ==
    /\ pc = "idle"
    /\ \E amount \in Amounts, exchange_rate \in ExchangeRates,
          random \in RandomValues :
           Served("CBDCSimulator.simulate_cross_border_payment",
                  <<amount, "USD", "EUR", exchange_rate>>,
                  simulate_cross_border_payment(ApiParameters, amount, "USD",
                                                "EUR", exchange_rate, random))

\* POST /simulation/financial-stability
PostFinancialStability ==
    /\ pc = "idle"
    /\ \E simulation_periods \in -1..MaxPeriods :
           Served("CBDCSimulator.simulate_financial_stability",
                  <<simulation_periods>>,
                  simulate_financial_stability(simulation_periods))

\* POST /risk/assessment
PostRiskAssessment ==
    /\ pc = "idle"
    /\ \E request \in RiskRequests :
           Served("RiskAnalytics.generate_risk_report", <<request>>,
                  generate_risk_report(request.returns, request.trading_metrics,
                                       request.operational_metrics,
                                       request.systemic_metrics))

\* POST /compliance/assessment
PostComplianceAssessment ==
    /\ pc = "idle"
    /\ \E request \in ComplianceRequests :
           Served("RegulatoryCompliance.generate_compliance_report", <<request>>,
                  generate_compliance_report(request.reserve_data,
                                             request.transaction_data,
                                             request.kyc_data, request.aml_data))

Next ==
    \/ CallAssessLiquidityRisk
    \/ CallAssessOperationalRisk
    \/ CallAssessSystemicRisk
    \/ CallAdvancedOperationalRisk
    \/ CallAdvancedSystemicRisk
    \/ CallNetworkRisk
    \/ CallLiquidityRisk
    \/ CallVar
    \/ CallExpectedShortfall
    \/ CallRiskScore
    \/ CallMonitorRegulatoryChanges
    \/ CallCheckReserveAdequacy
    \/ CallCheckTransactionLimits
    \/ CallCrisisScenario
    \/ CallTaylorRule
    \/ CallMonetaryImpact
    \/ StressBegin
    \/ StressStep
    \/ StressReturn

Spec == Init /\ [][Next]_vars

\* The calls of stress_test alone.
NextStress ==
    \/ StressBegin
    \/ StressStep
    \/ StressReturn

SpecStress == Init /\ [][NextStress]_vars

\* The calls of the scoring functions of AdvancedRiskModels alone.
NextAdvanced ==
    \/ CallNetworkRisk
    \/ CallLiquidityRisk
    \/ CallAdvancedOperationalRisk
    \/ CallAdvancedSystemicRisk

SpecAdvanced == Init /\ [][NextAdvanced]_vars

\* The calls of the checks of RegulatoryCompliance alone.
NextRegulatory ==
    \/ CallCheckReserveAdequacy
    \/ CallCheckTransactionLimits

SpecRegulatory == Init /\ [][NextRegulatory]_vars

\* The calls of the simulation package alone.
NextSimulation ==
    \/ CallCrisisScenario
    \/ CallTaylorRule
    \/ CallMonetaryImpact

SpecSimulation == Init /\ [][NextSimulation]_vars

\* Runs of add_requirement and of the checks on the two compliance engines.
NextCompliance ==
    \/ AddRequirement
    \/ RegulatoryAddRequirement
    \/ CheckMica
    \/ CheckGenius
    \/ EngineRiskScore
    \/ EngineComplianceReport
    \/ EngineReserveAdequacy
    \/ Resume

SpecCompliance == Init /\ [][NextCompliance]_vars

\* The POST endpoints of the API.
NextApi ==
    \/ PostMonetaryTransmission
    \/ PostCrossBorder
    \/ PostFinancialStability
    \/ PostRiskAssessment
    \/ PostComplianceAssessment

SpecApi == Init /\ [][NextApi]_vars

\* Concurrent calls of generate_risk_report and stress_test on the shared
\* instances, interleaved statement by statement.
NextConcurrent ==
    \/ \E t \in Threads : ReportBegin(t)
    \/ \E t \in Threads : ReportStep(t)
    \/ \E t \in Threads : ReportReturn(t)
    \/ \E t \in Threads : ThreadStressBegin(t)
    \/ \E t \in Threads : ThreadStressStep(t)
    \/ \E t \in Threads : ThreadStressReturn(t)

SpecConcurrent == Init /\ [][NextConcurrent]_vars

\* ------------------------------------------------------------------ *\
\* Properties                                                            *
\* ------------------------------------------------------------------ *\

\* x is a number of the closed interval [0, 1].
InUnit(x) == IsFin(x) /\ FGe(x, Zero) /\ FLe(x, One)

ScoreFunctions ==
    { "RiskAnalytics.assess_liquidity_risk",
      "RiskAnalytics.assess_operational_risk",
      "RiskAnalytics.assess_systemic_risk",
      "AdvancedRiskModels.assess_operational_risk",
      "AdvancedRiskModels.assess_systemic_risk" }

\* Every argument of the last call of a score function is a real number.
RealArgs ==
    CASE call.fn \in { "RiskAnalytics.assess_liquidity_risk",
                       "RiskAnalytics.assess_operational_risk",
                       "RiskAnalytics.assess_systemic_risk" } ->
            \A i \in 1..3 : IsFin(call.args[i])
      [] call.fn = "AdvancedRiskModels.assess_operational_risk" ->
            \A k \in DOMAIN call.args[1] : IsFin(call.args[1][k])
      [] call.fn = "AdvancedRiskModels.assess_systemic_risk" ->
            /\ \A k \in DOMAIN call.args[1] \ {"node_count"} :
                   IsFin(call.args[1][k])
            /\ \A k \in DOMAIN call.args[2] : IsFin(call.args[2][k])
            /\ IsFin(call.args[3])
      [] OTHER -> FALSE

\* C1: for arbitrary real-valued inputs, out-of-range ones included, every
\* score returned by the five score functions lies in [0, 1].
C1_ScoresInUnitInterval ==
    (pc = "called" /\ call.fn \in ScoreFunctions /\ RealArgs /\ call.res.ok)
        => InUnit(call.res.v)

\* C2: calculate_network_risk of the complete graph on 4 nodes returns
\* node_count 4, edge_count 6, average_degree 3, clustering_coefficient 1.0
\* and centralization 0.0.
C2_CompleteGraphMetrics ==
    (pc = "called" /\ call.fn = "AdvancedRiskModels.calculate_network_risk"
        /\ call.args = <<K4>>)
        => call.res = Ok([node_count |-> 4,
                          edge_count |-> F(6, 1),
                          average_degree |-> F(3, 1),
                          clustering_coefficient |-> One,
                          centralization |-> Zero])

\* C3: when stress_test succeeds, the table has exactly one row per input
\* scenario and the i-th row's 'scenario' is the i-th scenario's name.
C3_RowsFollowScenarios ==
    pc = "returned" =>
        /\ ret.ok
        /\ Len(ret.v.rows) = Len(shock_scenarios)
        /\ \A i \in 1..Len(shock_scenarios) :
               ret.v.rows[i].scenario = shock_scenarios[i].name

C3_Witness ==
    /\ pc = "returned"
    /\ Len(shock_scenarios) = 2
    /\ Len(ret.v.rows) = 2
    /\ shock_scenarios[1].name = "crash"
    /\ shock_scenarios[2].name = "baseline"

\* C4: the row of a scenario with an empty shocks mapping carries exactly
\* the liquidity, operational and systemic values obtained by running
\* calculate_liquidity_risk, assess_operational_risk and
\* assess_systemic_risk on the unshocked initial_conditions with the
\* scenario's network.
C4_NoOpShockIsBaseline ==
    pc \in {"stress", "returned"} =>
        \A i \in 1..Len(results) :
            shock_scenarios[i].shocks = NoShocks =>
                LET liquidity == calculate_liquidity_risk(conditions_at_call)
                    operational == ARM_assess_operational_risk(conditions_at_call)
                    network == calculate_network_risk(shock_scenarios[i].network)
                IN  /\ liquidity.ok /\ operational.ok /\ network.ok
                    /\ results[i].liquidity_risk = liquidity.v.liquidity_ratio
                    /\ results[i].operational_risk = operational.v
                    /\ Ok(results[i].systemic_risk) =
                           ARM_assess_systemic_risk(network.v, liquidity.v,
                                                    operational.v)

C4_Witness ==
    /\ pc = "returned"
    /\ Len(results) = 2
    /\ DOMAIN shock_scenarios[1].shocks = {"volume", "spread"}
    /\ shock_scenarios[2].shocks = NoShocks
    /\ conditions_at_call # BaseConditions

\* C5: stress_test never mutates its initial_conditions argument, and the
\* fields a scenario's shocks do not name enter that scenario's
\* computation with their initial value.
C5_InitialConditionsUntouched ==
    /\ initial_conditions = conditions_at_call
    /\ (pc = "stress" /\ idx < Len(shock_scenarios)
            /\ "shocks" \in shock_scenarios[idx + 1].keys) =>
          LET shocks == shock_scenarios[idx + 1].shocks
              sc == ShockedConditions(initial_conditions, shocks).res
          IN  sc.ok =>
                \A k \in DOMAIN conditions_at_call \ DOMAIN shocks :
                    k \in DOMAIN sc.v /\ sc.v[k] = conditions_at_call[k]

C5_Witness ==
    /\ pc = "returned"
    /\ Len(results) = 2
    /\ "uptime" \in DOMAIN shock_scenarios[1].shocks
    /\ "volume" \in DOMAIN shock_scenarios[2].shocks
    /\ initial_conditions.uptime = conditions_at_call.uptime
    /\ results[1].operational_risk # results[2].operational_risk

\* stress_test(init, [s]): its table of one row, or its exception.
SingleRun(init, s) ==
    LET first == LoopStep(<<>>, StressIteration(init, s).res)
    IN  IF first.pc = "raised" THEN first.ret
        ELSE Ok(DataFrame(first.results))

\* C6: the row produced for a scenario in a run over several scenarios is
\* the single row of a run over that scenario alone, whatever precedes or
\* follows it.
C6_ScenariosIndependent ==
    pc \in {"stress", "returned"} =>
        \A i \in 1..Len(results) :
            SingleRun(conditions_at_call, shock_scenarios[i]) =
                Ok(DataFrame(<<results[i]>>))

C6_Witness ==
    /\ pc = "returned"
    /\ Len(results) = 2
    /\ shock_scenarios[1].name = "outage"
    /\ shock_scenarios[2].name = "crash"
    /\ DOMAIN shock_scenarios[2].shocks = {"volume", "spread"}

\* The fields the loop body reads from the conditions.
RequiredFields ==
    {"volume", "market_cap", "spread", "depth", "uptime", "response_time",
     "target_response_time", "security_incidents", "total_incidents"}

\* A scenario the loop body cannot process: a key is missing, a required
\* condition field is missing, or the network matrix is not square.
Malformed(s) ==
    \/ ~(AllKeys \subseteq s.keys)
    \/ ~(RequiredFields \subseteq DOMAIN conditions_at_call)
    \/ \E i \in 1..Len(s.network) : Len(s.network[i]) # Len(s.network)

\* C7: stress_test is fail-fast and atomic: the loop does not go on past a
\* malformed scenario, a call over a list with a malformed scenario does
\* not return, and a failed call returns no table, not even the rows
\* collected before the failure.
C7_FailFastAtomic ==
    /\ pc = "stress" => (\A i \in 1..idx : ~Malformed(shock_scenarios[i]))
    /\ pc = "returned" =>
           (\A i \in 1..Len(shock_scenarios) : ~Malformed(shock_scenarios[i]))
    /\ pc = "raised" => (~ret.ok /\ ret.v = Zero)

C7_Witness ==
    /\ pc = "raised"
    /\ idx = 2
    /\ Len(results) = 1
    /\ ~ret.ok
    /\ Malformed(shock_scenarios[2])
    /\ ~Malformed(shock_scenarios[1])

\* C8: calculate_risk_score returns a value in [0, 1] for every list of
\* ComplianceMetrics whose compliance_score values are each in [0, 1],
\* whatever its length and its frameworks, repeated ones included.
C8_RiskScoreInUnitInterval ==
    (pc = "called" /\ call.fn = "AdvancedCompliance.calculate_risk_score"
        /\ \A i \in 1..Len(call.args[1]) :
               InUnit(call.args[1][i].compliance_score))
        => call.res.ok /\ InUnit(call.res.v)

\* C9: for every non-empty return series and every confidence level
\* strictly between 0 and 1, calculate_var is at least the smallest and at
\* most the largest return.
C9_VarWithinRange ==
    (pc = "called" /\ call.fn = "RiskAnalytics.calculate_var"
        /\ call.args[1] # <<>>
        /\ FGt(call.args[2], Zero) /\ FLt(call.args[2], One))
        => /\ call.res.ok
           /\ \E i \in 1..Len(call.args[1]) : FLe(call.args[1][i], call.res.v)
           /\ \E i \in 1..Len(call.args[1]) : FGe(call.args[1][i], call.res.v)

\* C10: when at least one return is <= var, calculate_expected_shortfall is
\* the mean of exactly the returns <= var, and so is <= var.
C10_ShortfallAtMostVar ==
    (pc = "called" /\ call.fn = "RiskAnalytics.calculate_expected_shortfall"
        /\ \E i \in 1..Len(call.args[1]) : FLe(call.args[1][i], call.args[2]))
        => /\ call.res = Ok(NpMean(SelectLe(call.args[1], call.args[2])))
           /\ FLe(call.res.v, call.args[2])

\* The sequence s back to front.
Reverse(s) == [i \in 1..Len(s) |-> s[Len(s) + 1 - i]]

\* C11: calculate_var(returns, c) is the linear-interpolation percentile of
\* the sorted returns at rank (1 - c)*(n - 1): it lies between the two
\* order statistics that bracket the rank (and is the order statistic at an
\* integral rank), whatever the order of the input; for the series
\* [-0.05, -0.02, 0.0, 0.01, 0.03] and c = 0.8 it is -0.026, up to the
\* rounding of the format.
C11_VarIsInterpolatedPercentile ==
    (pc = "called" /\ call.fn = "RiskAnalytics.calculate_var"
        /\ call.args[1] # <<>>
        /\ FGt(call.args[2], Zero) /\ FLt(call.args[2], One))
        => LET returns == call.args[1]
               c == call.args[2]
               n == Len(returns)
               arr == SortAsc(returns)
               den == Pow2(-c.e)
               num == (n - 1) * (den - c.m)
               lo == num \div den
               hi == IF num % den = 0 THEN lo ELSE lo + 1
           IN  /\ call.res.ok
               /\ FLe(arr[lo + 1], call.res.v)
               /\ FLe(call.res.v, arr[hi + 1])
               /\ calculate_var(Reverse(returns), c) = call.res
               /\ (returns \in ExampleSeries /\ c = F(4, 5)) =>
                      (FLe(F(-28, 1000), call.res.v)
                          /\ FLe(call.res.v, F(-24, 1000)))

\* C12: calculate_network_risk of the 4-node cycle graph returns
\* edge_count 4, average_degree 2, clustering_coefficient 0 and
\* centralization 0.
C12_CycleGraphMetrics ==
    (pc = "called" /\ call.fn = "AdvancedRiskModels.calculate_network_risk"
        /\ call.args = <<C4>>)
        => /\ call.res.ok
           /\ call.res.v.edge_count = F(4, 1)
           /\ call.res.v.average_degree = F(2, 1)
           /\ call.res.v.clustering_coefficient = Zero
           /\ call.res.v.centralization = Zero

C12_Witness ==
    /\ pc = "called"
    /\ call.fn = "AdvancedRiskModels.calculate_network_risk"
    /\ call.args = <<C4>>
    /\ call.res.ok
    /\ call.res.v.node_count = 4

\* C13: calculate_network_risk fails, and returns no NetworkMetrics
\* record, when the adjacency matrix has a single node or is empty.
C13_SmallNetworkRejected ==
    (pc = "called" /\ call.fn = "AdvancedRiskModels.calculate_network_risk"
        /\ Len(call.args[1]) <= 1)
        => ~call.res.ok

\* C14: calculate_expected_shortfall fails whenever no element of returns
\* is <= var (an empty series included); it returns no value, NaN or
\* other, in that case.
C14_EmptyShortfallRejected ==
    (pc = "called" /\ call.fn = "RiskAnalytics.calculate_expected_shortfall"
        /\ \A i \in 1..Len(call.args[1]) : ~FLe(call.args[1][i], call.args[2]))
        => ~call.res.ok

\* C15: assess_liquidity_risk fails for every market_cap <= 0, zero and
\* negative alike, and returns a score only when market_cap > 0.
C15_MarketCapMustBePositive ==
    (pc = "called" /\ call.fn = "RiskAnalytics.assess_liquidity_risk")
        => /\ FLe(call.args[2], Zero) => ~call.res.ok
           /\ call.res.ok => FGt(call.args[2], Zero)

\* The last call is calculate_network_risk on a symmetric 0/1 matrix with
\* zero diagonal.
SimpleGraphCall ==
    /\ pc = "called"
    /\ call.fn = "AdvancedRiskModels.calculate_network_risk"
    /\ call.args[1] \in Graphs(Len(call.args[1]))

\* C18: for every symmetric 0/1 matrix with zero diagonal and at least 2
\* nodes, clustering_coefficient and centralization both lie in [0, 1].
C18_NetworkMetricsInUnitInterval ==
    (SimpleGraphCall /\ Len(call.args[1]) >= 2)
        => /\ call.res.ok
           /\ InUnit(call.res.v.clustering_coefficient)
           /\ InUnit(call.res.v.centralization)

\* A star on 3 nodes (a path): both metrics are defined and centralization
\* is not 0.
C18_Witness ==
    /\ SimpleGraphCall
    /\ call.args = <<Path3>>
    /\ call.res.ok
    /\ FGt(call.res.v.centralization, Zero)

\* The sum of all entries of a matrix.
Total(A) == SeqSum([i \in 1..Len(A) |-> SeqSum(A[i])])

\* C19: node_count is the matrix dimension, edge_count is the sum of all
\* entries divided by 2, and average_degree is the mean row-sum, which is
\* 2 * edge_count / node_count; the test's matrix gives node_count 4 and
\* edge_count 5.
C19_BasicNetworkMetrics ==
    (pc = "called" /\ call.fn = "AdvancedRiskModels.calculate_network_risk"
        /\ call.res.ok)
        => /\ call.res.v.node_count = Len(call.args[1])
           /\ call.res.v.edge_count = RoundRat(Total(call.args[1]), 2, 0)
           /\ call.res.v.average_degree
                = RoundRat(Total(call.args[1]), Len(call.args[1]), 0)
           /\ call.res.v.average_degree
                = DivNZ(FMul(F(2, 1), call.res.v.edge_count),
                        FromInt(call.res.v.node_count))
           /\ call.args = <<TestGraph>>
                => /\ call.res.v.node_count = 4
                   /\ call.res.v.edge_count = F(5, 1)

C19_Witness ==
    /\ pc = "called"
    /\ call.fn = "AdvancedRiskModels.calculate_network_risk"
    /\ call.args = <<TestGraph>>
    /\ call.res.ok
    /\ call.res.v.edge_count = F(5, 1)

\* The requirement_ids of a list.
Ids(reqs) == {reqs[i].requirement_id : i \in 1..Len(reqs)}

\* The entries of the given type and id in a list of changes.
Entries(changes, type, id) ==
    {i \in 1..Len(changes) :
        changes[i].type = type /\ changes[i].requirement_id = id}

\* A requirement of current and one of new are the same requirement
\* (framework and requirement_id) with different thresholds.
ThresholdModified(current, new, id) ==
    \E i \in 1..Len(current), j \in 1..Len(new) :
        /\ current[i].requirement_id = id
        /\ new[j].requirement_id = id
        /\ current[i].framework = new[j].framework
        /\ FNe(current[i].threshold, new[j].threshold)

\* The lists hold the same requirements with the same thresholds.
SameIdsAndThresholds(current, new) ==
    {<<current[i].framework, current[i].requirement_id, current[i].threshold>> :
        i \in 1..Len(current)}
    = {<<new[j].framework, new[j].requirement_id, new[j].threshold>> :
        j \in 1..Len(new)}

\* C20: monitor_regulatory_changes reports exactly one 'new' entry for each
\* id of new that is not in current, exactly one 'modified' entry, with the
\* old and the new threshold, for each id of both whose threshold differs,
\* and exactly one 'removed' entry for each id of current that is not in
\* new; the result is non-empty whenever a threshold was modified and empty
\* when both lists have the same ids and thresholds.
C20_EveryChangeReported ==
    (pc = "called" /\ call.fn = "AdvancedCompliance.monitor_regulatory_changes")
        => LET current == call.args[1]
               new == call.args[2]
               changes == call.res.v
           IN  /\ call.res.ok
               /\ \A id \in Ids(new) \ Ids(current) :
                      Cardinality(Entries(changes, "new", id)) = 1
               /\ \A id \in Ids(current) \ Ids(new) :
                      Cardinality(Entries(changes, "removed", id)) = 1
               /\ \A id \in Ids(current) \cap Ids(new) :
                      ThresholdModified(current, new, id)
                          => /\ Cardinality(Entries(changes, "modified", id)) = 1
                             /\ \A e \in Entries(changes, "modified", id) :
                                    FNe(changes[e].old_threshold,
                                        changes[e].new_threshold)
               /\ (\E id \in Ids(current) \cap Ids(new) :
                      ThresholdModified(current, new, id)) => changes # <<>>
               /\ SameIdsAndThresholds(current, new) => changes = <<>>

\* What the call of thread t returns or raises when it runs alone.
Alone(t) ==
    IF threads[t].op = "generate_risk_report"
    THEN generate_risk_report(threads[t].args.returns,
                              threads[t].args.trading_metrics,
                              threads[t].args.operational_metrics,
                              threads[t].args.systemic_metrics)
    ELSE stress_test(threads[t].args.initial_conditions,
                     threads[t].args.shock_scenarios)

\* C17: no operation of RiskAnalytics or AdvancedRiskModels writes an
\* instance attribute after construction, and under every interleaving of
\* concurrent generate_risk_report and stress_test calls on the shared
\* instances each call returns (or raises) exactly what it does alone.
C17_NoSharedMutableState ==
    /\ risk_engine = RiskAnalyticsInit
    /\ risk_models = AdvancedRiskModelsInit
    /\ \A t \in Threads :
           threads[t].pc \in {"returned", "raised"} => threads[t].ret = Alone(t)

\* A generate_risk_report and a stress_test have both returned after
\* running interleaved with each other.
C17_Witness ==
    \E t, u \in Threads :
        /\ threads[t].op = "generate_risk_report"
        /\ threads[u].op = "stress_test"
        /\ threads[t].pc = "returned" /\ threads[u].pc = "returned"
        /\ threads[t].overlapped /\ threads[u].overlapped

\* C16: in every POST endpoint, an error raised by the engine operation
\* becomes a 400 response whose detail is the error's message; no engine
\* error is swallowed into a success response or surfaces as a 5xx.
C16_EngineErrorsBecome400 ==
    pc = "responded"
        => /\ ~call.res.ok
                => /\ response.status = 400
                   /\ response.detail = PyStr(call.res.err)
           /\ response.status = 200 => call.res.ok
           /\ response.status < 500

\* The cross-border endpoint answered an amount over the limit.
C16_Witness ==
    /\ pc = "responded"
    /\ call.fn = "CBDCSimulator.simulate_cross_border_payment"
    /\ ~call.res.ok
    /\ response.status = 400
    /\ response.detail = "Transaction amount exceeds limit"

\* C21: check_reserve_adequacy and check_transaction_limits called with a
\* jurisdiction that is not a supported Jurisdiction value fail instead of
\* returning a ratio or a compliance verdict.
C21_UnknownJurisdictionRejected ==
    (pc = "called"
        /\ call.fn \in {"RegulatoryCompliance.check_reserve_adequacy",
                        "RegulatoryCompliance.check_transaction_limits"}
        /\ call.args[Len(call.args)] \notin Jurisdiction)
        => ~call.res.ok

\* C26: check_reserve_adequacy's result does not depend on the
\* jurisdiction: for total_liabilities > 0 it is
\* min(reserve_assets / total_liabilities, 1.0) for every jurisdiction.
C26_ReserveAdequacyIgnoresJurisdiction ==
    (pc = "called" /\ call.fn = "RegulatoryCompliance.check_reserve_adequacy"
        /\ FGt(call.args[1], Zero))
        => /\ call.res = Ok(PyMin(DivNZ(call.args[2], call.args[1]), One))
           /\ \A j \in JurisdictionArgs :
                  check_reserve_adequacy(call.args[1], call.args[2], j) = call.res

\* An under-reserved EU call: the ratio returned is below 1.
C26_Witness ==
    /\ pc = "called"
    /\ call.fn = "RegulatoryCompliance.check_reserve_adequacy"
    /\ call.args = <<F(5, 1), One, "EU">>
    /\ call.res.ok
    /\ FLt(call.res.v, One)

\* The metrics of the three crisis scenarios, each with the offset and the
\* coefficient of its linear dependence on severity.
CrisisMetrics ==
    [bank_run |->
        [deposit_withdrawal_rate |-> <<Zero, FLit(3, 10)>>,
         liquidity_impact |-> <<Zero, FLit(4, 10)>>,
         system_stress |-> <<Zero, FLit(5, 10)>>],
     cyber_attack |->
        [system_availability |-> <<One, FLit(-3, 10)>>,
         transaction_delay |-> <<Zero, FromInt(5)>>,
         recovery_time |-> <<Zero, FromInt(24)>>],
     regulatory_change |->
        [compliance_cost |-> <<Zero, FromInt(1000000)>>,
         implementation_time |-> <<Zero, FromInt(30)>>,
         market_impact |-> <<Zero, FLit(2, 10)>>]]

C27_TaylorRuleUsesSuppliedRate ==
    (pc = "called" /\ call.fn = "EconomicModels.taylor_rule")
        => LET parameters == call.args[1]
               natural_rate == IF call.args[4] = None
                               THEN parameters.natural_rate ELSE call.args[4]
           IN  call.res =
                   Ok(FAdd(FAdd(natural_rate,
                                FMul(parameters.inflation_weight,
                                     FSub(call.args[2],
                                          parameters.inflation_target))),
                           FMul(parameters.output_gap_weight, call.args[3])))

\* C29: simulate_monetary_impact with periods = p >= 0 and an initial
\* cbdc_adoption <= 1 returns exactly p rows whose 'period' runs 0..p-1 in
\* order; cbdc_adoption never falls, rises by 0.01 per period from the
\* initial value until the cap, and never exceeds 1.0.
C29_MonetaryImpactRows ==
    (pc = "called" /\ call.fn = "EconomicModels.simulate_monetary_impact"
        /\ FLe(call.args[1].cbdc_adoption, One) /\ call.args[3] >= 0)
        => /\ call.res.ok
           /\ Len(call.res.v) = call.args[3]
           /\ \A i \in 1..Len(call.res.v) :
                  LET before == IF i = 1 THEN call.args[1].cbdc_adoption
                                ELSE call.res.v[i - 1].cbdc_adoption
                      now == call.res.v[i].cbdc_adoption
                  IN  /\ call.res.v[i].period = i - 1
                      /\ FLe(before, now)
                      /\ FLe(now, One)
                      /\ now = FAdd(before, FLit(1, 100)) \/ now = One

\* The network component N and the liquidity component L of the systemic
\* score.
NetworkComponent(nm) ==
    FAdd(FAdd(FMul(FLit(3, 10), nm.centralization),
              FMul(FLit(3, 10), FSub(One, nm.clustering_coefficient))),
         FMul(FLit(4, 10), DivNZ(nm.average_degree, FromInt(nm.node_count))))

LiquidityComponent(lm) ==
    FAdd(FAdd(FMul(FLit(4, 10), FSub(One, lm.liquidity_ratio)),
              FMul(FLit(3, 10), lm.bid_ask_spread)),
         FMul(FLit(3, 10), FSub(One, lm.turnover_ratio)))

\* C24: for every NetworkMetrics with node_count > 0,
\* AdvancedRiskModels.assess_systemic_risk returns
\* clamp(0.4*N + 0.3*L + 0.3*operational_risk, 0, 1), and for real-valued
\* arguments the score does not fall when operational_risk, centralization
\* or bid_ask_spread is raised with the other arguments kept.
C24_SystemicCompositeMonotone ==
    (pc = "called" /\ call.fn = "AdvancedRiskModels.assess_systemic_risk"
        /\ call.args[1].node_count > 0)
        => LET nm == call.args[1]
               lm == call.args[2]
               op == call.args[3]
           IN  /\ call.res =
                      Ok(Clamp(FAdd(FAdd(FMul(FLit(4, 10), NetworkComponent(nm)),
                                         FMul(FLit(3, 10), LiquidityComponent(lm))),
                                    FMul(FLit(3, 10), op))))
               /\ \A x \in {y \in Scalars : RealArgs} :
                      /\ FLe(op, x) =>
                             FLe(call.res.v,
                                 ARM_assess_systemic_risk(nm, lm, x).v)
                      /\ FLe(nm.centralization, x) =>
                             FLe(call.res.v,
                                 ARM_assess_systemic_risk(
                                     [nm EXCEPT !.centralization = x], lm, op).v)
                      /\ FLe(lm.bid_ask_spread, x) =>
                             FLe(call.res.v,
                                 ARM_assess_systemic_risk(
                                     nm, [lm EXCEPT !.bid_ask_spread = x], op).v)

\* The metrics of the test's graph and of the base conditions with an
\* operational risk of 0.5: a score strictly inside (0, 1) that a higher
\* operational risk raises.
C24_Witness ==
    /\ pc = "called"
    /\ call.fn = "AdvancedRiskModels.assess_systemic_risk"
    /\ call.args = <<calculate_network_risk(TestGraph).v,
                     calculate_liquidity_risk(BaseConditions).v, F(1, 2)>>
    /\ call.res.ok
    /\ FGt(call.res.v, Zero)
    /\ FLt(call.res.v,
           ARM_assess_systemic_risk(call.args[1], call.args[2], One).v)

\* The 3-node cliques of the graph with adjacency matrix A: the sets of
\* three nodes that are pairwise adjacent.
Cliques3(A) ==
    {c \in SUBSET (1..Len(A)) :
        /\ Cardinality(c) = 3
        /\ \A i \in c : \A j \in c \ {i} : A[i][j] = 1}

\* The number of neighbours of node i.
Neighbours(A, i) == Cardinality({j \in 1..Len(A) : A[i][j] = 1})

\* Twice the sum over the nodes of degree * (degree - 1) / 2.
PossibleTwice(A) ==
    SeqSum([i \in 1..Len(A) |-> Neighbours(A, i) * (Neighbours(A, i) - 1)])

\* C25: for every symmetric 0/1 matrix with zero diagonal, trace(A^3) / 6 is
\* exactly the number of 3-node cliques, and clustering_coefficient is that
\* number divided by the sum over the nodes of degree * (degree - 1) / 2, or
\* 0 when that sum is 0.
C25_TrianglesAreCliques ==
    (SimpleGraphCall /\ Len(call.args[1]) > 0)
        => LET A == call.args[1]
               count == Cardinality(Cliques3(A))
           IN  /\ Trace(MatMul(MatMul(A, A), A)) = 6 * count
               /\ DivNZ(FromInt(Trace(MatMul(MatMul(A, A), A))), FromInt(6))
                      = FromInt(count)
               /\ call.res.ok
               /\ call.res.v.clustering_coefficient =
                      IF PossibleTwice(A) = 0 THEN Zero
                      ELSE DivNZ(FromInt(count),
                                 DivNZ(FromInt(PossibleTwice(A)), FromInt(2)))

\* The test's graph: two triangles that share an edge.
C25_Witness ==
    /\ SimpleGraphCall
    /\ call.args[1] = TestGraph
    /\ Cardinality(Cliques3(call.args[1])) = 2
    /\ call.res.ok
    /\ FGt(call.res.v.clustering_coefficient, Zero)
    /\ FLt(call.res.v.clustering_coefficient, One)

\* The conditions of the i-th scenario: each shocked field of the
\* conditions the call was given multiplied by 1 + delta, the others kept.
Shocked(i) ==
    [k \in DOMAIN conditions_at_call |->
        IF k \in DOMAIN shock_scenarios[i].shocks
        THEN FMul(conditions_at_call[k],
                  FAdd(One, shock_scenarios[i].shocks[k]))
        ELSE conditions_at_call[k]]

\* C23: in stress_test, the operational_risk of each row is
\* clamp(0.4*(1 - uptime) + 0.3*min(transaction_volume/1000000, 1)
\* + 0.3*error_rate, 0, 1) of the shocked uptime, transaction volume and
\* error rate.
C23_RowOperationalRiskIsStatistical ==
    pc \in {"stress", "returned"} =>
        \A i \in 1..Len(results) :
            {"uptime", "transaction_volume", "error_rate"}
                    \subseteq DOMAIN conditions_at_call
                => Ok(results[i].operational_risk) =
                       RA_assess_operational_risk(Shocked(i).uptime,
                                                  Shocked(i).transaction_volume,
                                                  Shocked(i).error_rate)

\* C28: in stress_test, a scenario whose shocks name a field that
\* initial_conditions does not have ends the whole run with a KeyError and
\* no table, and never gets a row; in the row of every other scenario each
\* shocked field enters as initial_conditions[field] * (1 + delta).
C28_AbsentShockFieldAborts ==
    /\ pc \in {"stress", "returned"} =>
           \A i \in 1..Len(results) :
               /\ DOMAIN shock_scenarios[i].shocks \subseteq DOMAIN conditions_at_call
               /\ Ok(results[i].operational_risk) =
                      ARM_assess_operational_risk(Shocked(i))
               /\ results[i].liquidity_risk =
                      calculate_liquidity_risk(Shocked(i)).v.liquidity_ratio
    /\ (pc = "raised" /\ "shocks" \in shock_scenarios[idx].keys
            /\ ~(DOMAIN shock_scenarios[idx].shocks
                    \subseteq DOMAIN conditions_at_call))
           => ret = Raise("KeyError")
    /\ pc = "returned" =>
           \A i \in 1..Len(shock_scenarios) :
               DOMAIN shock_scenarios[i].shocks \subseteq DOMAIN conditions_at_call

\* An outage whose shocks gave a row, then a shock on the absent field
\* 'gdp' that ended the run.
C28_Witness ==
    /\ pc = "raised"
    /\ idx = 2
    /\ Len(results) = 1
    /\ shock_scenarios[1].name = "outage"
    /\ "gdp" \in DOMAIN shock_scenarios[2].shocks
    /\ "gdp" \notin DOMAIN conditions_at_call
    /\ results[1].operational_risk
           # ARM_assess_operational_risk(conditions_at_call).v
    /\ ret = Raise("KeyError")

\* The requirements of a list of added ones that a registry keeps: for each
\* key (a pair of fields), the one added last.
LastAdded(reqs, k1, k2) ==
    { reqs[i] : i \in { j \in 1..Len(reqs) :
        \A l \in (j + 1)..Len(reqs) :
            <<reqs[l][k1], reqs[l][k2]>> # <<reqs[j][k1], reqs[j][k2]>> } }

\* The entries of a registry.
Registered(self) == { self.requirements[k] : k \in DOMAIN self.requirements }

\* The checks of the AdvancedCompliance engine.
EngineChecks ==
    { "AdvancedCompliance.check_mica_compliance",
      "AdvancedCompliance.check_genius_compliance",
      "AdvancedCompliance.calculate_risk_score",
      "AdvancedCompliance.generate_compliance_report" }

\* What the last check returns on a newly made engine.
OnNewEngine ==
    CASE call.fn = "AdvancedCompliance.check_mica_compliance" ->
            check_mica_compliance(AdvancedComplianceInit, call.args[1],
                                  call.args[2], call.args[3])
      [] call.fn = "AdvancedCompliance.check_genius_compliance" ->
            check_genius_compliance(AdvancedComplianceInit, call.args[1],
                                    call.args[2], call.args[3])
      [] call.fn = "AdvancedCompliance.calculate_risk_score" ->
            calculate_risk_score(call.args[1])
      [] call.fn = "AdvancedCompliance.generate_compliance_report" ->
            AC_generate_compliance_report(AdvancedComplianceInit, call.args[1])

\* C30: after any sequence of add_requirement calls and checks, each
\* registry holds exactly one entry per distinct key (framework and
\* requirement_id, jurisdiction and requirement_type), the requirement added
\* last for that key; nothing but add_requirement changes a registry, and
\* what check_mica_compliance, check_genius_compliance, calculate_risk_score
\* and generate_compliance_report return is what they return on an empty
\* registry.
C30_RegistryKeepsLastAdded ==
    /\ Registered(advanced_compliance)
           = LastAdded(added.advanced, "framework", "requirement_id")
    /\ Cardinality(DOMAIN advanced_compliance.requirements)
           = Cardinality({ <<r.framework, r.requirement_id>> :
                             r \in Registered(advanced_compliance) })
    /\ Cardinality(DOMAIN advanced_compliance.requirements)
           = Cardinality(LastAdded(added.advanced, "framework", "requirement_id"))
    /\ Registered(regulatory_compliance)
           = LastAdded(added.regulatory, "jurisdiction", "requirement_type")
    /\ Cardinality(DOMAIN regulatory_compliance.requirements)
           = Cardinality(LastAdded(added.regulatory, "jurisdiction",
                                   "requirement_type"))
    /\ (pc = "called" /\ call.fn \in EngineChecks) => call.res = OnNewEngine

\* A requirement was replaced by a later one of the same framework and id,
\* and a check that finds a violation ran on the engine afterwards.
C30_Witness ==
    /\ pc = "called"
    /\ call.fn = "AdvancedCompliance.check_mica_compliance"
    /\ call.res.ok
    /\ call.res.v.violations = <<"Transaction limit exceeded">>
    /\ Len(added.advanced) = 2
    /\ added.advanced[1].threshold = One
    /\ added.advanced[2].threshold = F(11, 10)
    /\ Registered(advanced_compliance) = {added.advanced[2]}

====
